---- MODULE Spec2Model ----
(***************************************************************************)
(* TerminalGrid (src/src/extension.ts, src/src/utils.ts): the tracking of  *)
(* each terminal's working directory in terminalCwdMap and the start-up    *)
(* replay of a saved snapshot by restoreTerminals.                          *)
(*                                                                          *)
(* Strings are sequences of one-character strings, so that split, trim,    *)
(* includes and concatenation are computed as the code computes them.      *)
(* The JavaScript value undefined is the one-element sequence Undefined,   *)
(* whose element is no character.                                           *)
(***************************************************************************)
EXTENDS Integers, Sequences, FiniteSets, TLC

\* ------------------------------------------------------------------ bounds

MaxTasks == 1
MaxSaved == 3
MaxExisting == 2

\* ----------------------------------------------------------------- strings

Undefined == <<"undefined">>
Root == <<"/">>
Home == <<"/", "h">>
DirA == <<"/", "p", "/", "a">>
DirB == <<"/", "p", "/", "b">>
NameA == <<"a">>
NameB == <<"b">>
NameSh == <<"s", "h">>
StrDefault == <<"d", "e", "f", "a", "u", "l", "t">>
StrTerminal == <<"T", "e", "r", "m", "i", "n", "a", "l">>

\* JavaScript truthiness of a string | undefined
Truthy(s) == s # Undefined /\ s # <<>>

LowerChar(c) ==
    CASE c = "A" -> "a"
      [] c = "T" -> "t"
      [] c = "C" -> "c"
      [] c = "N" -> "n"
      [] OTHER -> c

ToLowerCase(s) == [i \in 1..Len(s) |-> LowerChar(s[i])]

\* String.prototype.includes
Includes(s, sub) ==
    \E i \in 0..(Len(s) - Len(sub)) : SubSeq(s, i + 1, i + Len(sub)) = sub

\* String.prototype.trim, on the blank character
RECURSIVE TrimLeft(_)
TrimLeft(s) == IF s # <<>> /\ Head(s) = " " THEN TrimLeft(Tail(s)) ELSE s

RECURSIVE TrimRight(_)
TrimRight(s) ==
    IF s # <<>> /\ s[Len(s)] = " " THEN TrimRight(SubSeq(s, 1, Len(s) - 1)) ELSE s

\* A trim that removes nothing.
TrimNothing(s) == s

Trim(s) == TrimRight(TrimLeft(s))

\* cwd.split('/').filter(p => p.length > 0)
RECURSIVE SplitParts(_, _, _)
SplitParts(s, cur, acc) ==
    IF s = <<>> THEN (IF cur = <<>> THEN acc ELSE Append(acc, cur))
    ELSE IF Head(s) = "/"
         THEN SplitParts(Tail(s), <<>>, IF cur = <<>> THEN acc ELSE Append(acc, cur))
         ELSE SplitParts(Tail(s), Append(cur, Head(s)), acc)

\* What follows the last slash, empty when the path ends with one.
getTextAfterLastSlash(cwd) ==
    LET slashes == { i \in 1..Len(cwd) : cwd[i] = "/" }
        last == IF slashes = {} THEN 0
                ELSE CHOOSE i \in slashes : \A j \in slashes : j <= i
    IN  IF last = Len(cwd) THEN StrTerminal ELSE SubSeq(cwd, last + 1, Len(cwd))

getFolderName(cwd) ==
    LET parts == SplitParts(cwd, <<>>, <<>>)
    IN  IF parts = <<>> THEN StrTerminal ELSE parts[Len(parts)]

\* os.homedir()
homeDir == Home

\* ------------------------------------------------------------------- state

VARIABLES
    terminalCwdMap,    \* the in-memory Map<string, string>: key -> cwd
    windowTerminals,   \* vscode.window.terminals, in host enumeration order
    workspaceFolders,  \* vscode.workspace.workspaceFolders (fsPath of each)
    platform,          \* os.platform()
    cwdMapRecord,      \* globalState value at CWD_MAP_KEY
    tasks,             \* in-flight trackTerminalCwd / getTerminalCwd calls
    globalState,       \* globalState value at TERMINAL_STATE_KEY
    config,            \* the terminalgrid configuration section
    now,               \* Date.now()
    restore,           \* position and locals of activate's restoreTerminals call
    hostCalls,         \* host operations issued so far, in order
    timers,            \* armed setTimeout callbacks that send text, in firing order
    nextId,            \* next terminal handle the host hands out
    createFails,       \* which createTerminal calls (by ordinal) the host rejects
    saveInterval,      \* the module variable saveInterval (0: undefined)
    armedTimers,       \* interval handles the runtime holds armed
    passes,            \* periodic passes in flight, oldest first
    closedTerminals,   \* terminals the host has closed; calls may still hold them
    openTimers,        \* pending setTimeout(() => trackTerminalCwd(t), 1000), by terminal
    durable,           \* what the host has persisted of globalState, by key
    pendingWrites,     \* globalState.update calls the host has not persisted yet
    store,             \* the state directory of the file store and its last results
    calc               \* the last call of a function of the status bar or the grid

vars == <<terminalCwdMap, windowTerminals, workspaceFolders, platform, cwdMapRecord,
          tasks, globalState, config, now, restore, hostCalls, timers, nextId,
          createFails, saveInterval, armedTimers, passes, closedTerminals,
          openTimers, durable, pendingWrites, store, calc>>

\* The scheduler, the close and open handlers and the durable stores.
saveVars == <<saveInterval, armedTimers, passes, closedTerminals, openTimers,
              durable, pendingWrites, store, calc>>

trackVars == <<tasks, workspaceFolders, platform, cwdMapRecord, saveVars>>
restoreVars == <<globalState, config, now, restore, hostCalls, timers, nextId,
                 createFails, saveVars>>

\* ------------------------------------------------------------ the cwd map

MapGet(m, k) == IF k \in DOMAIN m THEN m[k] ELSE Undefined
MapHas(m, k) == k \in DOMAIN m
MapSet(m, k, v) == [x \in (DOMAIN m) \cup {k} |-> IF x = k THEN v ELSE m[x]]
MapDelete(m, k) == [x \in (DOMAIN m) \ {k} |-> m[x]]
EmptyMap == [x \in {} |-> Undefined]

\* `${terminal.name}-${terminal.creationOptions?.name || 'default'}`
getTerminalKey(t) ==
    t.name \o <<"-">> \o (IF Truthy(t.cname) THEN t.cname ELSE StrDefault)

\* isValidCwd of trackTerminalCwd: !!cwd && cwd !== '/' && cwd !== homeDir
isValidCwd(cwd) == Truthy(cwd) /\ cwd # Root /\ cwd # homeDir

\* ------------------------------------------------ getProcessCwd (pure part)

\* What the OS reports for a terminal's process tree while getProcessCwd
\* queries it: the cwd of the process itself and of its children, each with
\* the cwds of its own children ("" when lsof/readlink prints nothing or fails),
\* and whether the ps/pgrep listing throws.
ProcNode(cwd, kids) == [cwd |-> cwd, kids |-> kids]

ProcTrees ==
    { [own |-> <<>>, kids |-> <<>>, psFails |-> FALSE],
      [own |-> Home, kids |-> <<>>, psFails |-> FALSE],
      [own |-> Home, kids |-> <<ProcNode(DirA, <<>>)>>, psFails |-> FALSE],
      [own |-> Root, kids |-> <<ProcNode(Home, <<DirB>>)>>, psFails |-> FALSE],
      [own |-> DirB, kids |-> <<>>, psFails |-> FALSE],
      [own |-> Home, kids |-> <<ProcNode(Root, <<>>)>>, psFails |-> FALSE],
      [own |-> Home, kids |-> <<>>, psFails |-> TRUE] }

Platforms == {"darwin", "linux", "win32"}

\* cwd && cwd.length > 0 && cwd !== os.homedir() && cwd !== '/'
DarwinHit(cwd) == cwd # <<>> /\ cwd # homeDir /\ cwd # Root

\* cwd && cwd.length > 0 && cwd !== os.homedir()
LinuxHit(cwd) == cwd # <<>> /\ cwd # homeDir

RECURSIVE FirstDarwinGrandchild(_)
FirstDarwinGrandchild(gcs) ==
    IF gcs = <<>> THEN Undefined
    ELSE IF DarwinHit(Head(gcs)) THEN Head(gcs)
    ELSE FirstDarwinGrandchild(Tail(gcs))

RECURSIVE FirstDarwinChild(_)
FirstDarwinChild(kids) ==
    IF kids = <<>> THEN Undefined
    ELSE IF DarwinHit(Head(kids).cwd) THEN Head(kids).cwd
    ELSE LET g == FirstDarwinGrandchild(Head(kids).kids)
         IN  IF g # Undefined THEN g ELSE FirstDarwinChild(Tail(kids))

\* for (const childPid of children.reverse())
RECURSIVE LastLinuxChild(_)
LastLinuxChild(kids) ==
    IF kids = <<>> THEN Undefined
    ELSE IF LinuxHit(kids[Len(kids)].cwd) THEN kids[Len(kids)].cwd
    ELSE LastLinuxChild(SubSeq(kids, 1, Len(kids) - 1))

getProcessCwd(os, tree) ==
    IF os = "darwin" THEN
        IF DarwinHit(tree.own) THEN tree.own
        ELSE IF tree.psFails THEN Undefined
        ELSE LET c == FirstDarwinChild(tree.kids)
             IN  IF c # Undefined THEN c
                 ELSE IF tree.own # <<>> THEN tree.own
                 ELSE Undefined
    ELSE IF os = "linux" THEN
        IF tree.psFails THEN Undefined
        ELSE LET c == LastLinuxChild(tree.kids)
             IN  IF c # Undefined THEN c
                 ELSE IF tree.own # <<>> THEN tree.own
                 ELSE Undefined
    ELSE Undefined

\* -------------------------------------------- trackTerminalCwd, by segment

\* The guarded write of the shell-integration and creationOptions branches.
TrackGuardedSet(m, key, cwdPath, existingCwd) ==
    IF isValidCwd(cwdPath) \/ ~isValidCwd(existingCwd)
    THEN MapSet(m, key, cwdPath)
    ELSE m

\* terminalName.includes(folderName) || folderName.includes(terminalName)
NameMatches(terminalName, folder) ==
    LET tn == ToLowerCase(terminalName)
        fn == ToLowerCase(getFolderName(folder))
    IN  Includes(tn, fn) \/ Includes(fn, tn)

\* A search through the folders that finds none.
NoMatchingFolder(terminalName, folders) == Undefined

RECURSIVE FirstMatchingFolder(_, _)
FirstMatchingFolder(terminalName, folders) ==
    IF folders = <<>> THEN Undefined
    ELSE IF NameMatches(terminalName, Head(folders)) THEN Head(folders)
    ELSE FirstMatchingFolder(terminalName, Tail(folders))

\* Lines 725-747: the workspace-folder name match and the first-folder fallback.
TrackByName(m, t, folders) ==
    LET key == getTerminalKey(t)
    IN  IF folders = <<>> THEN m
        ELSE LET hit == FirstMatchingFolder(t.name, folders)
             IN  IF hit # Undefined THEN MapSet(m, key, hit)
                 ELSE IF ~MapHas(m, key) THEN MapSet(m, key, folders[1])
                 ELSE m

\* Does the call return before its first await (lines 685-708)?
TrackReturnsSync(t) == Truthy(t.shell) \/ Truthy(t.ccwd)

\* A variant that ranks a valid stored value above every live signal.
TrackSyncStoredFirst(m, t) ==
    LET key == getTerminalKey(t)
        existingCwd == MapGet(m, key)
    IN  IF isValidCwd(existingCwd) THEN m
        ELSE IF Truthy(t.shell) THEN MapSet(m, key, t.shell)
        ELSE IF Truthy(t.ccwd) THEN MapSet(m, key, t.ccwd)
        ELSE m

\* The map after the first synchronous segment (lines 668-708).
TrackSync(m, t) ==
    LET key == getTerminalKey(t)
        existingCwd == MapGet(m, key)
    IN  IF Truthy(t.shell) THEN TrackGuardedSet(m, key, t.shell, existingCwd)
        ELSE IF Truthy(t.ccwd) THEN TrackGuardedSet(m, key, t.ccwd, existingCwd)
        ELSE m

\* The map after `await getProcessCwd(pid)` resumes (lines 713-747);
\* existingCwd is the value read at line 670, before the awaits.
TrackAfterProcess(m, t, existingCwd, processCwd, folders) ==
    IF isValidCwd(processCwd) THEN MapSet(m, getTerminalKey(t), processCwd)
    ELSE IF isValidCwd(existingCwd) THEN m
    ELSE TrackByName(m, t, folders)

\* ----------------------------------------------- getTerminalCwd, by segment

\* Lines 405-419: the value returned before any await, or Undefined when the
\* call goes on to `await terminal.processId`.
GetCwdSync(m, t) ==
    IF Truthy(t.shell) THEN t.shell
    ELSE IF Truthy(MapGet(m, getTerminalKey(t))) THEN MapGet(m, getTerminalKey(t))
    ELSE Undefined

\* Lines 424-432: the map after `await getProcessCwd(pid)` resumes.
GetCwdAfterProcess(m, t, processCwd) ==
    IF Truthy(processCwd) THEN MapSet(m, getTerminalKey(t), processCwd) ELSE m

\* ------------------------------------------------------- terminals and tasks

\* A vscode.Terminal: its name, creationOptions.name and .cwd, the cwd its
\* shell integration reports, what `await terminal.processId` resolves to
\* (0: undefined) and whether dispose() was called on it.
Terminal(id, name, cname, ccwd, pid) ==
    [id |-> id, name |-> name, cname |-> cname, ccwd |-> ccwd,
     shell |-> Undefined, pid |-> pid, disposed |-> FALSE]

TerminalIds == {windowTerminals[i].id : i \in DOMAIN windowTerminals}
TerminalById(id) ==
    LET held == windowTerminals \o closedTerminals
    IN  held[CHOOSE i \in DOMAIN held : held[i].id = id]

\* tasks lists the calls suspended at an await, oldest first: which function
\* (op), where it waits (pc), its terminal and the entry it read on entry.
Task(op, t) ==
    [op |-> op, pc |-> "pid", term |-> t.id,
     existingCwd |-> MapGet(terminalCwdMap, getTerminalKey(t))]

Slots == DOMAIN tasks
CanSuspend == Len(tasks) < MaxTasks
RemoveAt(q, s) == SubSeq(q, 1, s - 1) \o SubSeq(q, s + 1, Len(q))

\* saveCwdMap: the record becomes a copy of the map.
saveCwdMap(m) == m

\* A call of trackTerminalCwd(t) up to its return or its first await.
TrackCall(t) ==
    IF TrackReturnsSync(t)
    THEN /\ terminalCwdMap' = TrackSync(terminalCwdMap, t)
         /\ UNCHANGED tasks
    ELSE /\ CanSuspend
         /\ tasks' = Append(tasks, Task("track", t))
         /\ UNCHANGED terminalCwdMap

\* trackTerminalCwd called from the periodic pass (line 659), the delayed
\* onDidOpenTerminal timer (line 855) or the start-up loop (line 862).
TrackTerminal(i) ==
    /\ TrackCall(windowTerminals[i])
    /\ UNCHANGED <<windowTerminals, workspaceFolders, platform, cwdMapRecord>>
    /\ UNCHANGED restoreVars

ShellCwds == {Undefined, Home, DirA, DirB}

\* onDidChangeTerminalShellIntegration: the host has set shellIntegration (with
\* or without a cwd) and the handler calls trackTerminalCwd.
ShellIntegrationChanged(i, c) ==
    /\ windowTerminals[i].shell # c
    /\ windowTerminals' = [windowTerminals EXCEPT ![i].shell = c]
    /\ TrackCall(windowTerminals'[i])
    /\ UNCHANGED <<workspaceFolders, platform, cwdMapRecord>>
    /\ UNCHANGED restoreVars

\* onDidEndTerminalShellExecution: a command ended (the cwd may have changed);
\* the handler calls trackTerminalCwd and then saveCwdMap without awaiting.
ShellExecutionEnded(i, c) ==
    /\ Truthy(c)
    /\ windowTerminals' = [windowTerminals EXCEPT ![i].shell = c]
    /\ TrackCall(windowTerminals'[i])
    /\ cwdMapRecord' = saveCwdMap(terminalCwdMap')
    /\ UNCHANGED <<workspaceFolders, platform>>
    /\ UNCHANGED restoreVars

\* getTerminalCwd(t) called by collectTerminalState or
\* deduplicateExistingTerminals, up to its return or its first await (a call
\* that returns at once changes nothing).
GetCwdCall(i) ==
    LET t == windowTerminals[i]
        r == GetCwdSync(terminalCwdMap, t)
    IN  /\ Truthy(r) \/ CanSuspend
        /\ tasks' = IF Truthy(r) THEN tasks ELSE Append(tasks, Task("getcwd", t))
        /\ UNCHANGED <<terminalCwdMap, windowTerminals, workspaceFolders, platform,
                       cwdMapRecord>>
        /\ UNCHANGED restoreVars

\* `await terminal.processId` resumes.
PidResolved(s) ==
    LET k == tasks[s]
        t == TerminalById(k.term)
    IN  /\ k.pc = "pid"
        /\ IF t.pid # 0
           THEN /\ tasks' = [tasks EXCEPT ![s].pc = "proc"]
                /\ UNCHANGED terminalCwdMap
           ELSE /\ tasks' = RemoveAt(tasks, s)
                /\ terminalCwdMap' =
                      IF k.op = "track"
                      THEN TrackByName(terminalCwdMap, t, workspaceFolders)
                      ELSE terminalCwdMap
        /\ UNCHANGED <<windowTerminals, workspaceFolders, platform, cwdMapRecord>>
        /\ UNCHANGED restoreVars

\* `await getProcessCwd(pid)` resumes with what the process tree showed.
ProcessCwdResolved(s, tree) ==
    LET k == tasks[s]
        t == TerminalById(k.term)
        processCwd == getProcessCwd(platform, tree)
    IN  /\ k.pc = "proc"
        /\ terminalCwdMap' =
              IF k.op = "track"
              THEN TrackAfterProcess(terminalCwdMap, t, k.existingCwd, processCwd,
                                     workspaceFolders)
              ELSE GetCwdAfterProcess(terminalCwdMap, t, processCwd)
        /\ tasks' = RemoveAt(tasks, s)
        /\ UNCHANGED <<windowTerminals, workspaceFolders, platform, cwdMapRecord>>
        /\ UNCHANGED restoreVars

\* ------------------------------------------------ the tracking specification

TrackNames == {NameA, NameSh}

\* Terminals the host restored or the user opened without options, and
\* terminals this extension created with a name and a cwd.
TerminalKinds ==
    { Terminal(0, n, Undefined, Undefined, p) : n \in TrackNames, p \in {0, 1} }
    \cup { Terminal(0, NameA, NameA, DirA, 1) }

\* One terminal: a call reads and writes only the entry of its own terminal.
TerminalLists == { <<k>> : k \in TerminalKinds }

WithIds(ts) == [i \in DOMAIN ts |-> [ts[i] EXCEPT !.id = i]]

WorkspaceChoices == { <<>>, <<DirA>>, <<Home>>, <<DirB, DirA>> }

\* restore: where activate's call of restoreTerminals stands (pc), its locals
\* state (<<>> before line 530 and after the return) and uniqueTerminals, what
\* it returned, and how far activate got.
RestoreIdle ==
    [pc |-> "idle", state |-> <<>>, unique |-> <<>>, returned |-> "none",
     activation |-> "idle"]

\* A stored value that is absent (globalState.get returns undefined); a
\* present value v is <<v>>.
Absent == <<>>

NoConfig ==
    [enableDirectoryRestore |-> FALSE, autoLaunchCommand |-> <<>>,
     autoNameByFolder |-> FALSE]

\* A file that does not exist (readFileSync throws ENOENT).
Missing == <<<<"E", "N", "O", "E", "N", "T">>>>

\* Nothing persisted, no file written, no timer armed, no pass in flight.
NothingDurable == [state |-> Absent, cwdMap |-> EmptyMap]

\* The two files of the state directory (their text, or Missing), the last
\* call on the store, what it returned and whether it threw; for each file the
\* value last written to it and whether that write followed another.
EmptyStore ==
    [stateFile |-> Missing, cwdMapFile |-> Missing, op |-> "none",
     result |-> Absent, threw |-> FALSE,
     stateWritten |-> Absent, stateOverwrote |-> FALSE,
     cwdMapWritten |-> Absent, cwdMapOverwrote |-> FALSE]

\* No function of the status bar or the grid has been called.
NoCall == [fn |-> "none"]

SchedulerIdle ==
    /\ saveInterval = 0
    /\ armedTimers = {}
    /\ passes = <<>>
    /\ closedTerminals = <<>>
    /\ openTimers = <<>>
    /\ durable = NothingDurable
    /\ pendingWrites = <<>>
    /\ store = EmptyStore
    /\ calc = NoCall

InitTrack ==
    /\ terminalCwdMap = EmptyMap
    /\ windowTerminals \in { WithIds(ts) : ts \in TerminalLists }
    /\ workspaceFolders \in WorkspaceChoices
    /\ platform \in Platforms
    /\ cwdMapRecord = EmptyMap
    /\ tasks = <<>>
    /\ globalState = Absent
    /\ config = NoConfig
    /\ now = 0
    /\ restore = RestoreIdle
    /\ hostCalls = <<>>
    /\ timers = <<>>
    /\ nextId = Len(windowTerminals) + 1
    /\ createFails = {}
    /\ SchedulerIdle

NextTrack ==
    \/ \E i \in DOMAIN windowTerminals : TrackTerminal(i)
    \/ \E i \in DOMAIN windowTerminals, c \in ShellCwds : ShellIntegrationChanged(i, c)
    \/ \E i \in DOMAIN windowTerminals, c \in ShellCwds : ShellExecutionEnded(i, c)
    \/ \E i \in DOMAIN windowTerminals : GetCwdCall(i)
    \/ \E s \in Slots : PidResolved(s)
    \/ \E s \in Slots, tree \in ProcTrees : ProcessCwdResolved(s, tree)

SpecTrack == InitTrack /\ [][NextTrack]_vars

\* --------------------------------------------------------- restoreTerminals

\* A filter that keeps the last entry of each cwd instead of the first.
DedupKeepsLast(terminals, seenCwds) ==
    LET kept == { i \in DOMAIN terminals :
                    /\ terminals[i].cwd \notin seenCwds
                    /\ \A j \in DOMAIN terminals :
                          j > i => terminals[j].cwd # terminals[i].cwd }
    IN  [k \in 1..Cardinality(kept) |->
           terminals[CHOOSE i \in kept : Cardinality({ j \in kept : j <= i }) = k]]

\* deduplicateTerminalsByCwd (utils.ts): keep the first entry of each cwd.
RECURSIVE DedupFrom(_, _)
DedupFrom(terminals, seenCwds) ==
    IF terminals = <<>> THEN <<>>
    ELSE IF Head(terminals).cwd \in seenCwds
         THEN DedupFrom(Tail(terminals), seenCwds)
         ELSE <<Head(terminals)>>
                 \o DedupFrom(Tail(terminals), seenCwds \cup {Head(terminals).cwd})

\* The loop run over state.terminals itself.
keepEveryTerminal(terminals) == terminals

deduplicateTerminalsByCwd(terminals) == DedupFrom(terminals, {})

\* const maxAgeMs = 60 * 60 * 1000
maxAgeMs == 60 * 60 * 1000

\* ageMs >= maxAgeMs
IsStaleAtLimit(state, time) == time - state.savedAt >= maxAgeMs

\* ageMs > maxAgeMs
IsStale(state, time) == time - state.savedAt > maxAgeMs

\* The name the host shows for a terminal created without options.name.
HostDefaultName == NameSh

HostCall(call, term, cwd, name, text, count) ==
    [call |-> call, term |-> term, cwd |-> cwd, name |-> name, text |-> text,
     count |-> count]

\* A name taken from the folder whenever auto-naming is on.
ReplayNameFolderFirst(savedTerminal, autoNameByFolder) ==
    IF autoNameByFolder THEN getFolderName(savedTerminal.cwd)
    ELSE IF Truthy(savedTerminal.name) THEN savedTerminal.name
    ELSE Undefined

\* savedTerminal.name || (autoNameByFolder ? getFolderName(savedTerminal.cwd) : undefined)
ReplayName(savedTerminal, autoNameByFolder) ==
    IF Truthy(savedTerminal.name) THEN savedTerminal.name
    ELSE IF autoNameByFolder THEN getFolderName(savedTerminal.cwd)
    ELSE Undefined

\* vscode.window.createTerminal({cwd, name, iconPath})
CreatedTerminal(id, cwd, name) ==
    Terminal(id, IF name = Undefined THEN HostDefaultName ELSE name, name, cwd, 1)

\* One iteration of the replay loop (lines 581-602 and 614-639) on the
\* accumulated effect acc; once createTerminal has thrown, nothing more runs.
ReplayOne(acc, savedTerminal, autoLaunchCommand, autoNameByFolder) ==
    IF acc.threw THEN acc
    ELSE IF (acc.created + 1) \in createFails
    THEN [acc EXCEPT !.threw = TRUE,
                     !.calls = Append(@, HostCall("createTerminalThrows", 0,
                                   savedTerminal.cwd, Undefined, <<>>, 0))]
    ELSE LET terminalName == ReplayName(savedTerminal, autoNameByFolder)
             terminal == CreatedTerminal(acc.nextId, savedTerminal.cwd, terminalName)
         IN  [acc EXCEPT
                !.created = @ + 1,
                !.nextId = @ + 1,
                !.terminals = Append(@, terminal),
                !.calls = Append(@, HostCall("createTerminal", terminal.id,
                                             savedTerminal.cwd, terminalName, <<>>, 0)),
                !.map = MapSet(@, getTerminalKey(terminal), savedTerminal.cwd),
                !.timers = IF autoLaunchCommand # <<>>
                           THEN Append(@, [term |-> terminal.id,
                                           text |-> autoLaunchCommand])
                           ELSE @]

RECURSIVE ReplayLoop(_, _, _, _)
ReplayLoop(acc, uniqueTerminals, autoLaunchCommand, autoNameByFolder) ==
    IF uniqueTerminals = <<>> THEN acc
    ELSE ReplayLoop(ReplayOne(acc, Head(uniqueTerminals), autoLaunchCommand,
                              autoNameByFolder),
                    Tail(uniqueTerminals), autoLaunchCommand, autoNameByFolder)

ReplayStart ==
    [created |-> 0, nextId |-> nextId, terminals |-> windowTerminals,
     calls |-> hostCalls, map |-> terminalCwdMap, timers |-> timers, threw |-> FALSE]

Replay(uniqueTerminals) ==
    ReplayLoop(ReplayStart, uniqueTerminals, Trim(config.autoLaunchCommand),
               config.autoNameByFolder)

\* vscode.window.showInformationMessage(`TerminalGrid: Restored ${n} terminal(s) ...`)
Notified(calls, wording, n) ==
    Append(calls, HostCall("showInformationMessage", 0, Undefined, Undefined, wording, n))

\* The disposal loop stopping one terminal short.
DisposeCallsButLast(terminals) ==
    [i \in 1..(Len(terminals) - 1) |->
        HostCall("dispose", terminals[i].id, Undefined, Undefined, <<>>, 0)]

\* for (const terminal of existingTerminals) terminal.dispose()  (lines 570-573):
\* the calls made, and the terminals once the host has taken them.
DisposeCalls(terminals) ==
    [i \in DOMAIN terminals |->
        HostCall("dispose", terminals[i].id, Undefined, Undefined, <<>>, 0)]

Disposed(terminals, calls) ==
    [i \in DOMAIN terminals |->
        [terminals[i] EXCEPT !.disposed =
            @ \/ \E c \in DOMAIN calls : /\ calls[c].call = "dispose"
                                        /\ calls[c].term = terminals[i].id]]

\* The graceful check left out.
IsGracefulIgnored(state) == FALSE

\* if (state.gracefulExit)  (line 538)
IsGraceful(state) == state.gracefulExit

\* restoreTerminals returns to activate, which goes on to startPeriodicSave
\* (lines 820-823).
Returned(value) ==
    [pc |-> "returned", state |-> <<>>, unique |-> <<>>, returned |-> value,
     activation |-> "schedulerStarted"]

\* An exception leaves restoreTerminals and rejects activate at line 820.
Threw ==
    [pc |-> "threw", state |-> <<>>, unique |-> <<>>, returned |-> "none",
     activation |-> "rejected"]

Waiting(pc, state, unique) ==
    [pc |-> pc, state |-> state, unique |-> unique, returned |-> "none",
     activation |-> "awaitingRestore"]

\* A restore that goes on with a snapshot that lists no terminal.
ReplaysEmptyList(state) == FALSE

\* `if (state.terminals.length === 0) return false` (line 554).
NothingToReplay(state) == state.terminals = <<>>

\* restoreTerminals from its call to its first await or its return
\* (lines 517-576 and, with no terminal open, 612-642).
RestoreBegin ==
    /\ restore.pc = "start"
    /\ UNCHANGED <<trackVars, config, now, createFails>>
    /\ IF ~config.enableDirectoryRestore \/ globalState = Absent
       THEN /\ restore' = Returned("false")
            /\ UNCHANGED <<terminalCwdMap, windowTerminals, globalState, hostCalls,
                           timers, nextId>>
       ELSE LET state == globalState[1]
                uniqueTerminals == deduplicateTerminalsByCwd(state.terminals)
            IN  IF IsGraceful(state) \/ IsStale(state, now)
                THEN /\ globalState' = Absent
                     /\ restore' = Waiting("clearing", <<state>>, <<>>)
                     /\ UNCHANGED <<terminalCwdMap, windowTerminals, hostCalls,
                                    timers, nextId>>
                ELSE IF NothingToReplay(state)
                THEN /\ restore' = Returned("false")
                     /\ UNCHANGED <<terminalCwdMap, windowTerminals, globalState,
                                    hostCalls, timers, nextId>>
                ELSE IF Len(windowTerminals) > 0
                THEN /\ windowTerminals' =
                            Disposed(windowTerminals, DisposeCalls(windowTerminals))
                     /\ hostCalls' = hostCalls \o DisposeCalls(windowTerminals)
                     /\ restore' = Waiting("settling", <<state>>, uniqueTerminals)
                     /\ UNCHANGED <<terminalCwdMap, globalState, timers, nextId>>
                ELSE LET r == Replay(uniqueTerminals)
                     IN  /\ terminalCwdMap' = r.map
                         /\ windowTerminals' = r.terminals
                         /\ hostCalls' = r.calls
                         /\ timers' = r.timers
                         /\ nextId' = r.nextId
                         /\ IF r.threw
                            THEN /\ restore' = Threw
                                 /\ UNCHANGED globalState
                            ELSE /\ globalState' = Absent
                                 /\ restore' = Waiting("clearingClean", <<state>>,
                                                         uniqueTerminals)

\* The 500 ms wait of line 576 is over: lines 578-608.
RestoreSettled ==
    /\ restore.pc = "settling"
    /\ UNCHANGED <<trackVars, config, now, createFails>>
    /\ LET waited == Append(hostCalls, HostCall("delayElapsed", 0, Undefined,
                                                 Undefined, <<>>, 500))
           r == ReplayLoop([ReplayStart EXCEPT !.calls = waited], restore.unique,
                           Trim(config.autoLaunchCommand), config.autoNameByFolder)
       IN  /\ terminalCwdMap' = r.map
           /\ windowTerminals' = r.terminals
           /\ timers' = r.timers
           /\ nextId' = r.nextId
           /\ IF r.threw
              THEN /\ hostCalls' = r.calls
                   /\ restore' = Threw
                   /\ UNCHANGED globalState
              ELSE /\ hostCalls' = Notified(r.calls, "with saved directories",
                                            Len(restore.unique))
                   /\ globalState' = Absent
                   /\ restore' = Waiting("clearingRestored", restore.state,
                                       restore.unique)

\* `await context.globalState.update(TERMINAL_STATE_KEY, undefined)` resumes
\* (lines 540-541, 550-551, 608-609, 642-648).
RestoreCleared ==
    /\ restore.pc \in {"clearing", "clearingRestored", "clearingClean"}
    /\ UNCHANGED <<trackVars, config, now, createFails, terminalCwdMap,
                   windowTerminals, globalState, timers, nextId>>
    /\ hostCalls' = IF restore.pc = "clearingClean"
                    THEN Notified(hostCalls, "from previous session",
                                  Len(restore.unique))
                    ELSE hostCalls
    /\ restore' = Returned(IF restore.pc = "clearing" THEN "false" ELSE "true")

\* The oldest armed 500 ms timer fires: terminal.sendText(autoLaunchCommand).
LaunchTimerFires ==
    /\ timers # <<>>
    /\ hostCalls' = Append(hostCalls, HostCall("sendText", Head(timers).term,
                                               Undefined, Undefined,
                                               Head(timers).text, 0))
    /\ timers' = Tail(timers)
    /\ UNCHANGED <<trackVars, config, now, createFails, terminalCwdMap,
                   windowTerminals, globalState, restore, nextId>>

\* The host drops a disposed terminal from window.terminals.
HostClosesTerminal(i) ==
    /\ windowTerminals[i].disposed
    /\ windowTerminals' = RemoveAt(windowTerminals, i)
    /\ UNCHANGED <<trackVars, config, now, createFails, terminalCwdMap,
                   globalState, restore, hostCalls, timers, nextId>>

\* ----------------------------------------------- the restore specification

SavedEntries ==
    { [cwd |-> DirA, name |-> NameA],
      [cwd |-> DirA, name |-> NameB],
      [cwd |-> DirB, name |-> NameA],
      [cwd |-> DirB, name |-> <<>>] }

SavedLists == UNION { [1..n -> SavedEntries] : n \in 0..MaxSaved }

SavedAt == 1000
Ages == { maxAgeMs, maxAgeMs + 1, 2 * maxAgeMs }

Snapshots ==
    { [terminals |-> ts, savedAt |-> SavedAt, gracefulExit |-> g] :
         ts \in SavedLists, g \in BOOLEAN }

LaunchCommands == { <<" ">>, <<" ", "c">> }

Configs ==
    { [enableDirectoryRestore |-> e, autoLaunchCommand |-> c, autoNameByFolder |-> a] :
         e \in BOOLEAN, c \in LaunchCommands, a \in BOOLEAN }

\* Terminals the host's own persistence reopened before activation.
HostRestored(n) == [i \in 1..n |-> Terminal(i, HostDefaultName, Undefined, Undefined, 1)]

InitRestoreWith(failures) ==
    /\ terminalCwdMap = EmptyMap
    /\ windowTerminals \in { HostRestored(n) : n \in 0..MaxExisting }
    /\ workspaceFolders = <<>>
    /\ platform = "darwin"
    /\ cwdMapRecord = EmptyMap
    /\ tasks = <<>>
    /\ globalState \in {Absent} \cup { <<st>> : st \in Snapshots }
    /\ config \in Configs
    /\ now \in { SavedAt + a : a \in Ages }
    /\ restore = Waiting("start", <<>>, <<>>)
    /\ hostCalls = <<>>
    /\ timers = <<>>
    /\ nextId = Len(windowTerminals) + 1
    /\ createFails \in failures
    /\ SchedulerIdle

NextRestore ==
    \/ RestoreBegin
    \/ RestoreSettled
    \/ RestoreCleared
    \/ LaunchTimerFires
    \/ \E i \in DOMAIN windowTerminals : HostClosesTerminal(i)

\* The host creates every terminal it is asked for.
SpecRestore == InitRestoreWith({{}}) /\ [][NextRestore]_vars

\* The host may reject one createTerminal call.
SpecRestoreFaulty ==
    InitRestoreWith({{}} \cup { {n} : n \in 1..MaxSaved }) /\ [][NextRestore]_vars


\* ------------------------------------------- inferCwdFromName (utils.ts)

NameUp == <<"A">>
DirP == <<"/", "p">>

\* The directories that exist on disk while the extension runs.
Directories == {Root, DirP, Home, DirA, DirB}

\* name.toLowerCase().trim().replace(/[-_]/g, '-')
normalizeForMatch(name) ==
    LET t == Trim(ToLowerCase(name))
    IN  [i \in 1..Len(t) |-> IF t[i] = "_" THEN "-" ELSE t[i]]

\* path.join(searchPath, name), for a name without separators
pathJoin(searchPath, name) ==
    IF searchPath # <<>> /\ searchPath[Len(searchPath)] = "/"
    THEN searchPath \o name
    ELSE searchPath \o <<"/">> \o name

\* fsPath.split('/').slice(0, -1).join('/')
ParentOf(fsPath) ==
    LET slashes == {i \in DOMAIN fsPath : fsPath[i] = "/"}
    IN  IF slashes = {} THEN <<>>
        ELSE SubSeq(fsPath, 1, (CHOOSE i \in slashes : \A k \in slashes : k <= i) - 1)

\* The names readdirSync(searchPath) lists as directories.
DirectoryEntries(searchPath) ==
    LET prefix == pathJoin(searchPath, <<>>)
    IN  { SubSeq(d, Len(prefix) + 1, Len(d)) :
            d \in { e \in Directories :
                      /\ Len(e) > Len(prefix)
                      /\ SubSeq(e, 1, Len(prefix)) = prefix
                      /\ \A i \in (Len(prefix) + 1)..Len(e) : e[i] # "/" } }

\* One iteration of the loop over searchPaths (utils.ts lines 236-254).
InferIn(name, searchPath) ==
    LET exactPath == pathJoin(searchPath, name)
        hits == { n \in DirectoryEntries(searchPath) :
                    normalizeForMatch(n) = normalizeForMatch(name) }
    IN  IF exactPath \in Directories THEN exactPath
        ELSE IF searchPath \notin Directories \/ hits = {} THEN Undefined
        ELSE pathJoin(searchPath, CHOOSE n \in hits : TRUE)

RECURSIVE inferCwdFromName(_, _)
inferCwdFromName(name, paths) ==
    IF paths = <<>> THEN Undefined
    ELSE LET found == InferIn(name, Head(paths))
         IN  IF found # Undefined THEN found
             ELSE inferCwdFromName(name, Tail(paths))

\* ----------------------------------------- collectTerminalState, by segment

HomeSearchPaths ==
    << homeDir,
       pathJoin(homeDir, <<"P", "o", "l", "i", "c", "y", "E", "n", "g", "i", "n", "e">>),
       pathJoin(homeDir, <<"p", "r", "o", "j", "e", "c", "t", "s">>),
       pathJoin(homeDir, <<"c", "o", "d", "e">>),
       pathJoin(homeDir, <<"d", "e", "v">>),
       pathJoin(homeDir, <<"D", "o", "c", "u", "m", "e", "n", "t", "s">>) >>

\* Lines 451-461: each workspace folder, and its parent unless already listed.
RECURSIVE AddWorkspacePaths(_, _)
AddWorkspacePaths(paths, folders) ==
    IF folders = <<>> THEN paths
    ELSE LET withFolder == Append(paths, Head(folders))
             parent == ParentOf(Head(folders))
             listed == \E i \in DOMAIN withFolder : withFolder[i] = parent
         IN  AddWorkspacePaths(IF parent # <<>> /\ ~listed
                               THEN Append(withFolder, parent)
                               ELSE withFolder,
                               Tail(folders))

searchPaths == AddWorkspacePaths(HomeSearchPaths, workspaceFolders)

\* The loop body that leaves a terminal without a cwd out of the list.
CollectKnownOnly(terminals, t, cwd) ==
    IF Truthy(cwd) THEN Append(terminals, [cwd |-> cwd, name |-> t.name])
    ELSE terminals

\* Lines 466-487: the list after the entry pushed for terminal t, given what
\* getTerminalCwd returned.
CollectEntry(terminals, t, cwd) ==
    LET inferredCwd == IF Truthy(cwd) THEN cwd ELSE inferCwdFromName(t.name, searchPaths)
    IN  IF Truthy(inferredCwd)
        THEN Append(terminals, [cwd |-> inferredCwd, name |-> t.name])
        ELSE Append(terminals, [cwd |-> homeDir, name |-> t.name])

\* ------------------------------------------------------- the periodic pass

SAVE_INTERVAL_MS == 5000

\* A run of the interval callback: the loop it is in (phase), the array the
\* loop iterates (terms), its position, the await it is suspended at (wait),
\* the entry trackTerminalCwd read at line 670, the list collectTerminalState
\* has built, and the tick that started it.
Pass(terms, time) ==
    [phase |-> "track", terms |-> terms, idx |-> 1, wait |-> "none",
     existingCwd |-> Undefined, out |-> <<>>, started |-> time]

OpenIds == [i \in DOMAIN windowTerminals |-> windowTerminals[i].id]

\* globalState.update(key, value): the in-memory value is set at once and the
\* host persists it later; image is the stored content once it has.
Write(key, snapshot, record, by) ==
    [key |-> key, image |-> [state |-> snapshot, cwdMap |-> record], by |-> by]

\* The skip of an empty list left out.
SkipsNothing(terminals) == FALSE

\* terminals.length === 0 && !gracefulExit, with gracefulExit = false (line 501)
SkipsWrite(terminals) == terminals = <<>>

\* One stretch of the callback on x (x.pass on the map x.map, the CwdMap
\* record x.record, the snapshot record x.snapshot and the updates issued
\* x.writes, at time x.time): to the next iteration, a suspension or the end.
RECURSIVE RunPass(_)
RunFrom(x) ==
    LET p == x.pass
    IN  IF p.phase = "track" THEN
            IF p.idx > Len(p.terms)
            THEN \* lines 661-663: saveTerminalState runs to its first await,
                 \* then saveCwdMap
                 RunPass([x EXCEPT
                     !.record = saveCwdMap(x.map),
                     !.writes = Append(@, Write("cwdMap", x.snapshot,
                                                saveCwdMap(x.map), p.started)),
                     !.pass = [p EXCEPT !.phase = "collect", !.terms = OpenIds,
                                        !.idx = 1]])
            ELSE LET t == TerminalById(p.terms[p.idx])
                 IN  IF TrackReturnsSync(t)
                     THEN RunPass([x EXCEPT !.map = TrackSync(x.map, t),
                                            !.pass.idx = @ + 1])
                     ELSE [x EXCEPT !.pass.wait = "pid",
                                    !.pass.existingCwd =
                                        MapGet(x.map, getTerminalKey(t))]
        ELSE IF p.phase = "collect" THEN
            IF p.idx > Len(p.terms)
            THEN IF SkipsWrite(p.out)
                 THEN [x EXCEPT !.pass.phase = "done"]
                 ELSE LET state == [terminals |-> p.out, savedAt |-> x.time,
                                    gracefulExit |-> FALSE]
                      IN  [x EXCEPT
                             !.snapshot = <<state>>,
                             !.writes = Append(@, Write("state", <<state>>, x.record,
                                                        p.started)),
                             !.pass.phase = "saving"]
            ELSE LET t == TerminalById(p.terms[p.idx])
                     cwd == GetCwdSync(x.map, t)
                 IN  IF Truthy(cwd)
                     THEN RunPass([x EXCEPT
                             !.pass.out = CollectEntry(@, t, cwd),
                             !.pass.idx = @ + 1])
                     ELSE [x EXCEPT !.pass.wait = "pid"]
        ELSE x

\* The callback from where it stands (from) to its next suspension or its
\* end; each stretch starts from the value the one before it left.
RunPass(from) == CHOOSE reached \in { RunFrom(x) : x \in {from} } : TRUE

MaxPasses == 1
MaxPending == 3
MaxTicks == 2
MaxHandle == 2

Machine(p, time) ==
    [map |-> terminalCwdMap, record |-> cwdMapRecord, snapshot |-> globalState,
     writes |-> pendingWrites, pass |-> p, time |-> time]

\* The pass ran to x: what it leaves in the program's state.
PassLeaves(x, rest) ==
    /\ Len(x.writes) <= MaxPending
    /\ terminalCwdMap' = x.map
    /\ cwdMapRecord' = x.record
    /\ globalState' = x.snapshot
    /\ pendingWrites' = x.writes
    /\ passes' = IF x.pass.phase = "done" THEN rest ELSE Append(rest, x.pass)

\* startPeriodicSave without the clearInterval.
StartsWithoutClear(armed) == armed

\* if (saveInterval) clearInterval(saveInterval)  (lines 652-654)
ClearInterval(armed) == armed \ {saveInterval}

\* startPeriodicSave(context), called by activate at line 823.
StartPeriodicSave ==
    LET handle == 1 + (CHOOSE h \in armedTimers \cup {saveInterval} :
                          \A k \in armedTimers \cup {saveInterval} : k <= h)
    IN  /\ handle <= MaxHandle
        /\ armedTimers' = ClearInterval(armedTimers) \cup {handle}
        /\ saveInterval' = handle
        /\ UNCHANGED <<terminalCwdMap, windowTerminals, workspaceFolders, platform,
                       cwdMapRecord, tasks, globalState, config, now, restore,
                       hostCalls, timers, nextId, createFails, passes,
                       closedTerminals, openTimers, durable, pendingWrites, store, calc>>

\* A deactivate that stores the snapshot as a graceful exit.
DeactivateSavesGraceful ==
    /\ armedTimers' = armedTimers \ {saveInterval}
    /\ saveInterval' = 0
    /\ globalState' = << [terminals |-> <<>>, savedAt |-> now, gracefulExit |-> TRUE] >>
    /\ UNCHANGED <<terminalCwdMap, windowTerminals, workspaceFolders, platform,
                   cwdMapRecord, tasks, config, now, restore, hostCalls, timers,
                   nextId, createFails, passes, closedTerminals, openTimers,
                   durable, pendingWrites, store, calc>>

\* deactivate (lines 1132-1137)
Deactivate ==
    /\ armedTimers' = IF saveInterval # 0 THEN armedTimers \ {saveInterval}
                      ELSE armedTimers
    /\ saveInterval' = 0
    /\ UNCHANGED <<terminalCwdMap, windowTerminals, workspaceFolders, platform,
                   cwdMapRecord, tasks, globalState, config, now, restore,
                   hostCalls, timers, nextId, createFails, passes,
                   closedTerminals, openTimers, durable, pendingWrites, store, calc>>

\* An armed interval fires, SAVE_INTERVAL_MS after the last time: the callback
\* of lines 656-664 runs to its first suspension.
TickWithin(h, most) ==
    /\ h \in armedTimers
    /\ Len(passes) < most
    /\ now < MaxTicks * SAVE_INTERVAL_MS
    /\ now' = now + SAVE_INTERVAL_MS
    /\ PassLeaves(RunPass(Machine(Pass(OpenIds, now'), now')), passes)
    /\ UNCHANGED <<windowTerminals, workspaceFolders, platform, tasks, config,
                   restore, hostCalls, timers, nextId, createFails, saveInterval,
                   armedTimers, closedTerminals, openTimers, durable, store, calc>>

\* The ticks of a schedule whose passes are over before the next tick.
Tick(h) == TickWithin(h, MaxPasses)

\* The pass after the call it awaited returned cwd (getTerminalCwd) or changed
\* the map to m (trackTerminalCwd).
Resumed(p, m, cwd) ==
    LET t == TerminalById(p.terms[p.idx])
        next == [p EXCEPT !.idx = @ + 1, !.wait = "none",
                          !.existingCwd = Undefined,
                          !.out = IF p.phase = "collect"
                                  THEN CollectEntry(@, t, cwd) ELSE @]
    IN  RunPass([Machine(next, now) EXCEPT !.map = m])

\* `await terminal.processId` resumes in a pass.
PassPidResolved(j) ==
    LET p == passes[j]
        t == TerminalById(p.terms[p.idx])
    IN  /\ p.wait = "pid"
        /\ IF t.pid # 0
           THEN /\ passes' = [passes EXCEPT ![j].wait = "proc"]
                /\ UNCHANGED <<terminalCwdMap, cwdMapRecord, globalState,
                               pendingWrites>>
           ELSE PassLeaves(Resumed(p,
                               IF p.phase = "track"
                               THEN TrackByName(terminalCwdMap, t, workspaceFolders)
                               ELSE terminalCwdMap,
                               Undefined),
                           RemoveAt(passes, j))
        /\ UNCHANGED <<windowTerminals, workspaceFolders, platform, tasks, config,
                       now, restore, hostCalls, timers, nextId, createFails,
                       saveInterval, armedTimers, closedTerminals, openTimers,
                       durable, store, calc>>

\* `await getProcessCwd(pid)` resumes in a pass with what the process tree showed.
PassProcessCwdResolved(j, tree) ==
    LET p == passes[j]
        t == TerminalById(p.terms[p.idx])
        processCwd == getProcessCwd(platform, tree)
    IN  /\ p.wait = "proc"
        /\ PassLeaves(Resumed(p,
                          IF p.phase = "track"
                          THEN TrackAfterProcess(terminalCwdMap, t, p.existingCwd,
                                                 processCwd, workspaceFolders)
                          ELSE GetCwdAfterProcess(terminalCwdMap, t, processCwd),
                          processCwd),
                      RemoveAt(passes, j))
        /\ UNCHANGED <<windowTerminals, workspaceFolders, platform, tasks, config,
                       now, restore, hostCalls, timers, nextId, createFails,
                       saveInterval, armedTimers, closedTerminals, openTimers,
                       durable, store, calc>>

\* The host persists the oldest update; the saveTerminalState that awaits it
\* (line 513) returns.
Persisted ==
    /\ pendingWrites # <<>>
    /\ durable' = Head(pendingWrites).image
    /\ pendingWrites' = Tail(pendingWrites)
    /\ passes' = LET w == Head(pendingWrites)
                     kept == { j \in DOMAIN passes :
                                 ~(/\ w.key = "state"
                                   /\ passes[j].phase = "saving"
                                   /\ passes[j].started = w.by) }
                 IN  IF kept = DOMAIN passes THEN passes
                     ELSE RemoveAt(passes,
                                   CHOOSE j \in DOMAIN passes : j \notin kept)
    /\ UNCHANGED <<terminalCwdMap, windowTerminals, workspaceFolders, platform,
                   cwdMapRecord, tasks, globalState, config, now, restore,
                   hostCalls, timers, nextId, createFails, saveInterval,
                   armedTimers, closedTerminals, openTimers, store, calc>>


\* --------------------------------------------- open, close, crash handlers

MaxOpened == 2

\* Is the terminal object still referenced by a suspended call or a timer?
HeldByCall(id) ==
    \/ \E s \in DOMAIN tasks : tasks[s].term = id
    \/ \E j \in DOMAIN passes : \E n \in DOMAIN passes[j].terms : passes[j].terms[n] = id
    \/ \E k \in DOMAIN openTimers : openTimers[k] = id

\* The close handler left out.
KeepEntryOnClose(m, t) == m

\* onDidCloseTerminal: terminalCwdMap.delete(getTerminalKey(terminal))  (line 871)
EvictOnClose(m, t) == MapDelete(m, getTerminalKey(t))

\* The host closes a terminal and raises onDidCloseTerminal.
CloseTerminal(i) ==
    LET t == windowTerminals[i]
    IN  /\ windowTerminals' = RemoveAt(windowTerminals, i)
        /\ closedTerminals' = IF HeldByCall(t.id) THEN Append(closedTerminals, t)
                              ELSE closedTerminals
        /\ terminalCwdMap' = EvictOnClose(terminalCwdMap, t)
        /\ UNCHANGED <<workspaceFolders, platform, cwdMapRecord, tasks, globalState,
                       config, now, restore, hostCalls, timers, nextId, createFails,
                       saveInterval, armedTimers, passes, openTimers, durable,
                       pendingWrites, store, calc>>

\* The host opens a terminal and raises onDidOpenTerminal:
\* setTimeout(() => trackTerminalCwd(terminal), 1000)  (lines 853-856).
OpenTerminal(kind) ==
    /\ nextId <= MaxOpened
    /\ windowTerminals' = Append(windowTerminals, [kind EXCEPT !.id = nextId])
    /\ nextId' = nextId + 1
    /\ openTimers' = Append(openTimers, nextId)
    /\ UNCHANGED <<terminalCwdMap, workspaceFolders, platform, cwdMapRecord, tasks,
                   globalState, config, now, restore, hostCalls, timers,
                   createFails, saveInterval, armedTimers, passes, closedTerminals,
                   durable, pendingWrites, store, calc>>

\* The oldest 1000 ms timer of onDidOpenTerminal fires: trackTerminalCwd(terminal),
\* on the terminal object the timer holds.
OpenTimerFires ==
    /\ openTimers # <<>>
    /\ TrackCall(TerminalById(Head(openTimers)))
    /\ openTimers' = Tail(openTimers)
    /\ UNCHANGED <<windowTerminals, workspaceFolders, platform, cwdMapRecord,
                   globalState, config, now, restore, hostCalls, timers, nextId,
                   createFails, saveInterval, armedTimers, passes, closedTerminals,
                   durable, pendingWrites, store, calc>>

\* A loadCwdMap that loads nothing.
loadNothing(m, savedMap) == m

\* loadCwdMap (lines 37-45): every entry of the stored record is set in the map.
RECURSIVE loadCwdMap(_, _)
loadCwdMap(m, savedMap) ==
    IF DOMAIN savedMap = {} THEN m
    ELSE LET key == CHOOSE k \in DOMAIN savedMap : TRUE
         IN  loadCwdMap(MapSet(m, key, savedMap[key]), MapDelete(savedMap, key))

\* The process dies and the next one activates (lines 804-823) on what the
\* host had persisted: a fresh map filled by loadCwdMap, restoreTerminals
\* returning at line 527 (restore is off), then startPeriodicSave.
CrashRestart ==
    /\ ~config.enableDirectoryRestore
    /\ globalState' = durable.state
    /\ cwdMapRecord' = durable.cwdMap
    /\ terminalCwdMap' = loadCwdMap(EmptyMap, durable.cwdMap)
    /\ windowTerminals' = <<>>
    /\ tasks' = <<>>
    /\ passes' = <<>>
    /\ closedTerminals' = <<>>
    /\ openTimers' = <<>>
    /\ pendingWrites' = <<>>
    /\ saveInterval' = 1
    /\ armedTimers' = {1}
    /\ restore' = Returned("false")
    /\ UNCHANGED <<workspaceFolders, platform, config, now, hostCalls, timers,
                   nextId, createFails, durable, store, calc>>

\* ------------------------------------------------ the scheduler specification

\* Terminals a pass can find open: opened by the user (no creation options),
\* with or without a process id yet, and created by this extension.
SaveKinds ==
    { Terminal(0, NameA, Undefined, Undefined, 1),
      Terminal(0, NameUp, Undefined, Undefined, 0),
      Terminal(0, NameSh, Undefined, Undefined, 1),
      Terminal(0, NameB, NameB, DirB, 1) }

SaveLists ==
    { <<>> } \cup { <<k>> : k \in SaveKinds }
    \cup { << Terminal(0, NameA, Undefined, Undefined, 1),
              Terminal(0, NameB, NameB, DirB, 1) >>,
           << Terminal(0, NameSh, Undefined, Undefined, 1),
              Terminal(0, NameUp, Undefined, Undefined, 0) >> }

\* activate has reached line 823 on a fresh install: nothing stored, restore
\* off, the timer armed.
InitSave ==
    /\ terminalCwdMap = EmptyMap
    /\ windowTerminals \in { WithIds(ts) : ts \in SaveLists }
    /\ workspaceFolders \in { <<>>, <<DirA>> }
    /\ platform = "darwin"
    /\ cwdMapRecord = EmptyMap
    /\ tasks = <<>>
    /\ globalState = Absent
    /\ config = NoConfig
    /\ now = 0
    /\ restore = Returned("false")
    /\ hostCalls = <<>>
    /\ timers = <<>>
    /\ nextId = Len(windowTerminals) + 1
    /\ createFails = {}
    /\ saveInterval = 1
    /\ armedTimers = {1}
    /\ passes = <<>>
    /\ closedTerminals = <<>>
    /\ openTimers = <<>>
    /\ durable = NothingDurable
    /\ pendingWrites = <<>>
    /\ store = EmptyStore
    /\ calc = NoCall

\* The periodic pass and what it awaits.
NextPass ==
    \/ \E h \in armedTimers : Tick(h)
    \/ \E j \in DOMAIN passes : PassPidResolved(j)
    \/ \E j \in DOMAIN passes, tree \in ProcTrees : PassProcessCwdResolved(j, tree)
    \/ Persisted

\* The pass among shell-integration reports, closes and crashes.
NextSave ==
    \/ NextPass
    \/ \E i \in DOMAIN windowTerminals, c \in {Home, DirA} :
           ShellIntegrationChanged(i, c)
    \/ \E i \in DOMAIN windowTerminals : CloseTerminal(i)
    \/ CrashRestart

SpecSave == InitSave /\ [][NextSave]_vars

\* The pass alone, with what the runtime and the host guarantee: an armed
\* interval fires, a terminal's processId resolves and an update is persisted.
\* Nothing makes a spawned lsof, ps, pgrep or readlink exit: execAsync is
\* called without a timeout (lines 311-392), so the resumption of
\* `await getProcessCwd(pid)` carries no fairness.
SpecPassFair ==
    /\ InitSave
    /\ [][NextPass]_vars
    /\ WF_vars(\E h \in armedTimers : Tick(h))
    /\ WF_vars(\E j \in DOMAIN passes : PassPidResolved(j))
    /\ WF_vars(Persisted)

\* The timer started, restarted and stopped while passes run.
NextTimer ==
    \/ NextPass
    \/ StartPeriodicSave
    \/ Deactivate

SpecTimer == InitSave /\ [][NextTimer]_vars


\* ------------------------------------------------------------------ claims

\* C1: once the map holds a valid cwd for an identity (non-empty, not '/', not
\* the home directory), no tracking or resolution step replaces that entry
\* with the home directory or '/'.
C1_MonotonicValidity ==
    [][\A k \in DOMAIN terminalCwdMap :
          (isValidCwd(terminalCwdMap[k]) /\ k \in DOMAIN terminalCwdMap')
              => terminalCwdMap'[k] \notin {homeDir, Root}]_vars

\* What a resuming call would leave in the map had it read the entry of its
\* terminal at resumption instead of before its awaits.
ResumedWithFreshRead(k, processCwd) ==
    LET t == TerminalById(k.term)
        fresh == MapGet(terminalCwdMap, getTerminalKey(t))
    IN  IF k.op = "track"
        THEN TrackAfterProcess(terminalCwdMap, t, fresh, processCwd, workspaceFolders)
        ELSE IF Truthy(fresh) THEN terminalCwdMap
        ELSE GetCwdAfterProcess(terminalCwdMap, t, processCwd)

\* C9: a call's read of its session's entry and the write that depends on it
\* are one uninterrupted segment, so no call overwrites a value another call
\* wrote after that read: whenever a call resumes from its process query, what
\* it does to the map is what it would do on reading the entry afresh.
C9_NoLostUpdate ==
    [][\A s \in Slots :
          (tasks[s].pc = "proc" /\ tasks' = RemoveAt(tasks, s))
              => \E tree \in ProcTrees :
                    terminalCwdMap' =
                        ResumedWithFreshRead(tasks[s], getProcessCwd(platform, tree))]_vars

\* C10 as stated: a valid stored value has the highest priority, so the entry
\* of an identity never changes while it is valid, whatever the other signals
\* report.
C10_StoredValueFirst ==
    [][\A k \in DOMAIN terminalCwdMap :
          (isValidCwd(terminalCwdMap[k]) /\ k \in DOMAIN terminalCwdMap')
              => terminalCwdMap'[k] = terminalCwdMap[k]]_vars

\* The entry a call of trackTerminalCwd on terminal t must leave when it
\* returns before its first await: the first signal present, in the order
\* shell integration, creation directory; the stored value only survives a
\* signal that is not valid.
IsTrackCallOn(i) ==
    \/ TrackTerminal(i)
    \/ \E c \in ShellCwds : ShellIntegrationChanged(i, c)
    \/ \E c \in ShellCwds : ShellExecutionEnded(i, c)

EntryOf(m, t) == MapGet(m, getTerminalKey(t))

\* What the name match of a tracking call leaves at the entry of terminal t:
\* a workspace folder whose name matches the terminal's, else the entry as it
\* was, else the first workspace folder.
NameMatchOutcome(t) ==
    LET matching == { f \in { workspaceFolders[j] : j \in DOMAIN workspaceFolders } :
                         NameMatches(t.name, f) }
        after == EntryOf(terminalCwdMap', t)
    IN  IF matching # {} THEN after \in matching
        ELSE IF getTerminalKey(t) \in DOMAIN terminalCwdMap
             THEN terminalCwdMap' = terminalCwdMap
        ELSE IF workspaceFolders # <<>> THEN after = workspaceFolders[1]
        ELSE terminalCwdMap' = terminalCwdMap

\* C10 (amended): trackTerminalCwd tries (1) the shell-integration cwd, (2) the
\* creation-time directory, (3) the live process tree, (4) the workspace-folder
\* name match.  A valid shell-integration cwd always becomes the entry, whatever
\* is stored; without one, a valid creation directory does; after the awaits a
\* valid process cwd does.  The stored value is no signal of its own: a signal
\* that is present but not valid replaces the entry only if the stored value is
\* not valid either, and the name match is reached only when neither the
\* process cwd nor the value stored at the start of the call is valid, or the
\* terminal has no process id.
C10_SignalPriority ==
    [][/\ \A i \in DOMAIN windowTerminals :
            IsTrackCallOn(i) =>
               LET t == windowTerminals'[i]
                   stored == EntryOf(terminalCwdMap, t)
                   after == EntryOf(terminalCwdMap', t)
               IN  /\ isValidCwd(t.shell) => after = t.shell
                   /\ (~Truthy(t.shell) /\ isValidCwd(t.ccwd)) => after = t.ccwd
                   /\ (Truthy(t.shell) /\ ~isValidCwd(t.shell))
                         => after = (IF isValidCwd(stored) THEN stored ELSE t.shell)
                   /\ (~Truthy(t.shell) /\ Truthy(t.ccwd) /\ ~isValidCwd(t.ccwd))
                         => after = (IF isValidCwd(stored) THEN stored ELSE t.ccwd)
                   /\ (~Truthy(t.shell) /\ ~Truthy(t.ccwd))
                         => terminalCwdMap' = terminalCwdMap
       /\ \A s \in Slots, tree \in ProcTrees :
            (ProcessCwdResolved(s, tree) /\ tasks[s].op = "track") =>
               LET t == TerminalById(tasks[s].term)
                   processCwd == getProcessCwd(platform, tree)
               IN  /\ isValidCwd(processCwd)
                         => EntryOf(terminalCwdMap', t) = processCwd
                   /\ (~isValidCwd(processCwd) /\ isValidCwd(tasks[s].existingCwd))
                         => terminalCwdMap' = terminalCwdMap
                   /\ (~isValidCwd(processCwd) /\ ~isValidCwd(tasks[s].existingCwd))
                         => NameMatchOutcome(t)
       /\ \A s \in Slots :
            ( /\ PidResolved(s)
              /\ tasks[s].op = "track"
              /\ TerminalById(tasks[s].term).pid = 0 )
                => NameMatchOutcome(TerminalById(tasks[s].term))]_vars

\* A terminal whose entry is its valid shell-integration cwd although it was
\* created with another directory and the saved record still shows another
\* valid value stored for it earlier.
C10_Witness ==
    \E i \in DOMAIN windowTerminals :
        LET t == windowTerminals[i]
        IN  /\ isValidCwd(t.shell)
            /\ Truthy(t.ccwd) /\ t.ccwd # t.shell
            /\ EntryOf(terminalCwdMap, t) = t.shell
            /\ isValidCwd(EntryOf(cwdMapRecord, t))
            /\ EntryOf(cwdMapRecord, t) # t.shell

\* ------------------------------------------------- claims about the replay

CallsOf(calls, kind) == SelectSeq(calls, LAMBDA c : c.call = kind)

\* Every createTerminal call, whether the host answered or threw.
CreationAttempts(calls) ==
    SelectSeq(calls, LAMBDA c : c.call \in {"createTerminal", "createTerminalThrows"})

\* The entries of a snapshot that are the first with their cwd, in order.
FirstIndices(ts) ==
    { i \in DOMAIN ts : \A j \in 1..(i - 1) : ts[j].cwd # ts[i].cwd }

NthOf(indices, n) ==
    CHOOSE i \in indices : Cardinality({ j \in indices : j <= i }) = n

FirstOccurrences(ts) ==
    [n \in 1..Cardinality(FirstIndices(ts)) |-> ts[NthOf(FirstIndices(ts), n)]]

DistinctCwds(ts) == { ts[i].cwd : i \in DOMAIN ts }

FreshSnapshot(state) ==
    /\ ~state.gracefulExit
    /\ now - state.savedAt <= maxAgeMs
    /\ state.terminals # <<>>

\* The creation calls made are, in order, for the expected entries: same cwd,
\* and the entry's name where it has one.
PanesMatch(created, expected) ==
    /\ Len(created) = Len(expected)
    /\ \A n \in DOMAIN created :
          /\ created[n].cwd = expected[n].cwd
          /\ Truthy(expected[n].name) => created[n].name = expected[n].name

RestoreEnabled(enabledOnly) == enabledOnly => config.enableDirectoryRestore

RestoreStarts == restore.pc = "start" /\ restore'.pc # "start"

ReplayDedupStep(enabledOnly) ==
    LET created == CallsOf(hostCalls', "createTerminal")
        before == CallsOf(hostCalls, "createTerminal")
    IN  /\ ( /\ RestoreStarts
             /\ RestoreEnabled(enabledOnly)
             /\ globalState # Absent
             /\ FreshSnapshot(globalState[1]) )
              => IF windowTerminals = <<>>
                 THEN PanesMatch(created, FirstOccurrences(globalState[1].terminals))
                 ELSE restore'.pc = "settling" /\ created = <<>>
        /\ (restore.pc = "settling" /\ restore'.pc # "settling")
              => PanesMatch(created, FirstOccurrences(globalState[1].terminals))
        /\ created # before
              => before = <<>> /\ restore.pc \in {"start", "settling"}

NoPaneTouched ==
    /\ CallsOf(hostCalls', "createTerminal") = <<>>
    /\ CallsOf(hostCalls', "dispose") = <<>>
    /\ windowTerminals' = windowTerminals

GracefulStep(enabledOnly) ==
    /\ ( /\ RestoreStarts
         /\ RestoreEnabled(enabledOnly)
         /\ globalState # Absent
         /\ globalState[1].gracefulExit )
          => /\ NoPaneTouched
             /\ globalState' = Absent
             /\ restore'.pc = "returned" => restore'.returned = "false"
    /\ (restore.pc = "clearing" /\ restore.state[1].gracefulExit)
          => /\ NoPaneTouched
             /\ globalState' = Absent
             /\ restore'.pc = "returned" => restore'.returned = "false"

\* C3 as stated: on any activation where the stored snapshot has
\* gracefulExit = true, the Reconciler creates no pane, disposes no pane, and
\* the snapshot record is absent when it terminates.
C3_GracefulNeverReplayedAlways == [][GracefulStep(FALSE)]_vars

\* C3 (amended): on any activation with restore enabled where the stored
\* snapshot has gracefulExit = true, the Reconciler creates no pane, disposes
\* no pane, and the snapshot record is absent when it terminates.
C3_GracefulNeverReplayed == [][GracefulStep(TRUE)]_vars

C3_Witness ==
    /\ restore.pc = "clearing"
    /\ restore.state[1].gracefulExit
    /\ restore.state[1].terminals # <<>>
    /\ now - restore.state[1].savedAt <= maxAgeMs
    /\ windowTerminals # <<>>
    /\ globalState = Absent

StalenessStep(enabledOnly) ==
    /\ ( /\ RestoreStarts
         /\ RestoreEnabled(enabledOnly)
         /\ globalState # Absent
         /\ ~globalState[1].gracefulExit )
          => IF now - globalState[1].savedAt > 60 * 60 * 1000
             THEN NoPaneTouched /\ globalState' = Absent
             ELSE /\ restore'.pc # "clearing"
                  /\ restore'.pc = "returned" => globalState' = globalState
    /\ (restore.pc = "clearing" /\ ~restore.state[1].gracefulExit)
          => NoPaneTouched /\ globalState' = Absent

\* C4 as stated: whenever the stored non-graceful snapshot is older than one
\* hour, the Reconciler makes zero pane creations and zero disposals and clears
\* the snapshot record; a snapshot at most one hour old is not rejected.
C4_StalenessCheckAlways == [][StalenessStep(FALSE)]_vars

\* C4 (amended): with restore enabled, if the stored non-graceful snapshot is
\* older than one hour the Reconciler makes zero pane creations and zero
\* disposals and clears the snapshot record; a snapshot at most one hour old
\* is not rejected by this check.
C4_StalenessCheck == [][StalenessStep(TRUE)]_vars

C4_Witness ==
    /\ restore.pc = "clearing"
    /\ ~restore.state[1].gracefulExit
    /\ now - restore.state[1].savedAt = maxAgeMs + 1
    /\ restore.state[1].terminals # <<>>
    /\ windowTerminals # <<>>
    /\ globalState = Absent

\* C5: when replay finds terminals already open, every one of them is disposed
\* before the first replay terminal is created, and the settling delay elapses
\* between the last disposal and the first creation.
C5_DisposeSettleCreate ==
    /\ \A i, j \in DOMAIN hostCalls :
          ( /\ hostCalls[i].call \in {"createTerminal", "createTerminalThrows"}
            /\ hostCalls[j].call = "dispose" )
              => \E k \in DOMAIN hostCalls :
                    j < k /\ k < i /\ hostCalls[k].call = "delayElapsed"
    /\ CreationAttempts(hostCalls) # <<>>
          => \A t \in DOMAIN windowTerminals :
                \/ \E c \in DOMAIN hostCalls :
                      /\ hostCalls[c].call = "createTerminal"
                      /\ hostCalls[c].term = windowTerminals[t].id
                \/ /\ windowTerminals[t].disposed
                   /\ \E d \in DOMAIN hostCalls :
                         /\ hostCalls[d].call = "dispose"
                         /\ hostCalls[d].term = windowTerminals[t].id

C5_Witness ==
    /\ Len(CallsOf(hostCalls, "dispose")) = 2
    /\ Len(CallsOf(hostCalls, "delayElapsed")) = 1
    /\ Len(CallsOf(hostCalls, "createTerminal")) = 2

\* C6: when replay has finished, for every terminal it created the map entry
\* at that terminal's key is the cwd saved for it, also when several saved
\* sessions share a name.
C6_ReplayRegistersCwd ==
    \A c \in DOMAIN hostCalls :
        hostCalls[c].call = "createTerminal"
            => \A t \in DOMAIN windowTerminals :
                  windowTerminals[t].id = hostCalls[c].term
                      => EntryOf(terminalCwdMap, windowTerminals[t]) = hostCalls[c].cwd

\* The snapshot restoreTerminals is working on.
SnapshotInHand == IF restore.state # <<>> THEN restore.state[1] ELSE globalState[1]

\* C7: after any replay that reached terminal creation, with or without
\* terminals already open, the snapshot record is absent and exactly one
\* summary notification has been shown, with the number of deduplicated
\* saved sessions.
C7_Finalize ==
    [][/\ ( /\ restore'.pc \in {"returned", "threw"}
            /\ restore.pc \notin {"returned", "threw"}
            /\ CreationAttempts(hostCalls') # <<>> )
             => /\ globalState' = Absent
                /\ Len(CallsOf(hostCalls', "showInformationMessage")) = 1
                /\ CallsOf(hostCalls', "showInformationMessage")[1].count
                      = Cardinality(DistinctCwds(SnapshotInHand.terminals))
       /\ restore.pc \in {"returned", "threw"}
             => /\ CallsOf(hostCalls', "showInformationMessage")
                      = CallsOf(hostCalls, "showInformationMessage")
                /\ globalState' = globalState]_vars

\* C8: if creating the terminal for one saved session fails, the replay still
\* attempts every remaining session, still reaches Finalize, and never throws
\* to activate, which goes on to start the scheduler.
C8_BestEffortReplay ==
    /\ restore.pc # "threw"
    /\ restore.activation # "rejected"
    /\ restore.pc \in {"clearingClean", "clearingRestored"}
          => Len(CreationAttempts(hostCalls))
                = Cardinality(DistinctCwds(restore.state[1].terminals))
    /\ (restore.pc = "returned" /\ CreationAttempts(hostCalls) # <<>>)
          => /\ restore.returned = "true"
             /\ globalState = Absent
             /\ CallsOf(hostCalls, "showInformationMessage") # <<>>

\* ----------------------------------------- the reactivation specification

\* activate from its call to the call of restoreTerminals (lines 804-820):
\* loadCwdMap fills the map from the CwdMap record.
Activate ==
    /\ restore.pc = "idle"
    /\ terminalCwdMap' = loadCwdMap(terminalCwdMap, cwdMapRecord)
    /\ restore' = Waiting("start", <<>>, <<>>)
    /\ UNCHANGED <<windowTerminals, globalState, hostCalls, timers, nextId,
                   trackVars, config, now, createFails>>

KeyOfReplayedA == NameA \o <<"-">> \o NameA
KeyOfShell == NameSh \o <<"-">> \o StrDefault

\* What an earlier run left in the CwdMap record.
CwdMapRecords ==
    { EmptyMap,
      MapSet(EmptyMap, KeyOfShell, DirA),
      MapSet(MapSet(EmptyMap, KeyOfShell, DirA), KeyOfReplayedA, DirB) }

\* A new process before activate: the module's map is empty, the records are
\* what the earlier run left.
InitReactivate ==
    /\ terminalCwdMap = EmptyMap
    /\ windowTerminals \in { HostRestored(n) : n \in 0..MaxExisting }
    /\ workspaceFolders = <<>>
    /\ platform = "darwin"
    /\ cwdMapRecord \in CwdMapRecords
    /\ tasks = <<>>
    /\ globalState \in {Absent} \cup { <<st>> : st \in Snapshots }
    /\ config \in Configs
    /\ now \in { SavedAt + a : a \in Ages }
    /\ restore = RestoreIdle
    /\ hostCalls = <<>>
    /\ timers = <<>>
    /\ nextId = Len(windowTerminals) + 1
    /\ createFails = {}
    /\ SchedulerIdle

NextReactivate ==
    \/ Activate
    \/ RestoreBegin
    \/ RestoreSettled
    \/ RestoreCleared
    \/ LaunchTimerFires
    \/ \E i \in DOMAIN windowTerminals : HostClosesTerminal(i)

SpecReactivate == InitReactivate /\ [][NextReactivate]_vars

\* ------------------------------------------ the open/close specification

\* activate has returned in a window without terminals: the handlers of
\* lines 835-872 are registered.
InitClose ==
    /\ terminalCwdMap = EmptyMap
    /\ windowTerminals = <<>>
    /\ workspaceFolders \in WorkspaceChoices
    /\ platform \in Platforms
    /\ cwdMapRecord = EmptyMap
    /\ tasks = <<>>
    /\ globalState = Absent
    /\ config = NoConfig
    /\ now = 0
    /\ restore = Returned("false")
    /\ hostCalls = <<>>
    /\ timers = <<>>
    /\ nextId = 1
    /\ createFails = {}
    /\ SchedulerIdle

\* Terminals opened and closed while the delayed tracking of onDidOpenTerminal
\* is pending or suspended.
NextClose ==
    \/ \E k \in TerminalKinds : OpenTerminal(k)
    \/ OpenTimerFires
    \/ \E s \in Slots : PidResolved(s)
    \/ \E s \in Slots, tree \in ProcTrees : ProcessCwdResolved(s, tree)
    \/ \E i \in DOMAIN windowTerminals : CloseTerminal(i)

SpecClose == InitClose /\ [][NextClose]_vars

\* ------------------------------------------------------------ the file store

\* A JSON text is the sequence of its tokens; a token is the sequence of its
\* characters: a punctuation mark, a quoted string, a number or a literal.
P(c) == <<c>>
StrTok(s) == <<"\"">> \o s \o <<"\"">>
IsStrTok(tok) == Len(tok) >= 2 /\ tok[1] = "\"" /\ tok[Len(tok)] = "\""
StrOf(tok) == SubSeq(tok, 2, Len(tok) - 1)

DigitChars == <<"0", "1", "2", "3", "4", "5", "6", "7", "8", "9">>

RECURSIVE NumTok(_)
NumTok(n) ==
    IF n < 10 THEN <<DigitChars[n + 1]>>
    ELSE Append(NumTok(n \div 10), DigitChars[(n % 10) + 1])

IsNumTok(tok) ==
    /\ tok # <<>>
    /\ \A i \in DOMAIN tok : \E d \in DOMAIN DigitChars : DigitChars[d] = tok[i]
    /\ Len(tok) > 1 => tok[1] # "0"

RECURSIVE NumOf(_)
NumOf(tok) ==
    IF tok = <<>> THEN 0
    ELSE 10 * NumOf(SubSeq(tok, 1, Len(tok) - 1))
         + (CHOOSE d \in 0..9 : DigitChars[d + 1] = tok[Len(tok)])

TrueTok == <<"t", "r", "u", "e">>
FalseTok == <<"f", "a", "l", "s", "e">>
BoolTok(b) == IF b THEN TrueTok ELSE FalseTok

KeyCwd == StrTok(<<"c", "w", "d">>)
KeyName == StrTok(<<"n", "a", "m", "e">>)
KeyTerminals == StrTok(<<"t", "e", "r", "m", "i", "n", "a", "l", "s">>)
KeySavedAt == StrTok(<<"s", "a", "v", "e", "d", "A", "t">>)
KeyGracefulExit ==
    StrTok(<<"g", "r", "a", "c", "e", "f", "u", "l", "E", "x", "i", "t">>)

\* JSON.stringify of one saved terminal: a property that is undefined is left out.
StringifyTerminal(t) ==
    <<P("{"), KeyCwd, P(":"), StrTok(t.cwd)>>
    \o (IF t.name = Undefined THEN <<>>
        ELSE <<P(","), KeyName, P(":"), StrTok(t.name)>>)
    \o <<P("}")>>

RECURSIVE StringifyTerminals(_)
StringifyTerminals(ts) ==
    IF ts = <<>> THEN <<>>
    ELSE StringifyTerminal(Head(ts))
         \o (IF Tail(ts) = <<>> THEN <<>> ELSE <<P(",")>>)
         \o StringifyTerminals(Tail(ts))

\* JSON.stringify(state)
StringifyState(state) ==
    <<P("{"), KeyTerminals, P(":"), P("[")>>
    \o StringifyTerminals(state.terminals)
    \o <<P("]"), P(","), KeySavedAt, P(":"), NumTok(state.savedAt), P(","),
         KeyGracefulExit, P(":"), BoolTok(state.gracefulExit), P("}")>>

RECURSIVE StringifyEntries(_)
StringifyEntries(m) ==
    IF DOMAIN m = {} THEN <<>>
    ELSE LET key == CHOOSE k \in DOMAIN m : TRUE
             rest == MapDelete(m, key)
         IN  <<StrTok(key), P(":"), StrTok(m[key])>>
             \o (IF DOMAIN rest = {} THEN <<>> ELSE <<P(",")>>)
             \o StringifyEntries(rest)

\* JSON.stringify(cwdMap)
StringifyCwdMap(m) == <<P("{")>> \o StringifyEntries(m) \o <<P("}")>>

\* A parse that failed (JSON.parse throws) and one that gave value, with the
\* tokens left.
ParseFailed == [ok |-> FALSE, value |-> <<>>, rest |-> <<>>]
Parsed(value, rest) == [ok |-> TRUE, value |-> value, rest |-> rest]

ParseTerminal(toks) ==
    IF /\ Len(toks) >= 5
       /\ toks[1] = P("{") /\ toks[2] = KeyCwd /\ toks[3] = P(":")
       /\ IsStrTok(toks[4])
    THEN IF toks[5] = P("}")
         THEN Parsed([cwd |-> StrOf(toks[4]), name |-> Undefined],
                     SubSeq(toks, 6, Len(toks)))
         ELSE IF /\ Len(toks) >= 9
                 /\ toks[5] = P(",") /\ toks[6] = KeyName /\ toks[7] = P(":")
                 /\ IsStrTok(toks[8]) /\ toks[9] = P("}")
         THEN Parsed([cwd |-> StrOf(toks[4]), name |-> StrOf(toks[8])],
                     SubSeq(toks, 10, Len(toks)))
         ELSE ParseFailed
    ELSE ParseFailed

\* The elements of a non-empty array, up to and including its "]".
RECURSIVE ParseElements(_, _)
ParseElements(toks, acc) ==
    LET r == ParseTerminal(toks)
    IN  IF ~r.ok \/ r.rest = <<>> THEN ParseFailed
        ELSE IF Head(r.rest) = P(",")
        THEN ParseElements(Tail(r.rest), Append(acc, r.value))
        ELSE IF Head(r.rest) = P("]")
        THEN Parsed(Append(acc, r.value), Tail(r.rest))
        ELSE ParseFailed

ParseArray(toks) ==
    IF Len(toks) < 2 \/ toks[1] # P("[") THEN ParseFailed
    ELSE IF toks[2] = P("]") THEN Parsed(<<>>, SubSeq(toks, 3, Len(toks)))
    ELSE ParseElements(Tail(toks), <<>>)

\* A literal read as true whatever it says.
ParseBoolAlwaysTrue(tok) == TRUE

ParseBool(tok) == tok = TrueTok

\* JSON.parse of the text of a state file.
ParseState(text) ==
    IF Len(text) < 3 \/ text[1] # P("{") \/ text[2] # KeyTerminals \/ text[3] # P(":")
    THEN ParseFailed
    ELSE LET ts == ParseArray(SubSeq(text, 4, Len(text)))
             r == ts.rest
         IN  IF /\ ts.ok
                /\ Len(r) = 9
                /\ r[1] = P(",") /\ r[2] = KeySavedAt /\ r[3] = P(":")
                /\ IsNumTok(r[4])
                /\ r[5] = P(",") /\ r[6] = KeyGracefulExit /\ r[7] = P(":")
                /\ r[8] \in {TrueTok, FalseTok}
                /\ r[9] = P("}")
             THEN Parsed([terminals |-> ts.value, savedAt |-> NumOf(r[4]),
                          gracefulExit |-> ParseBool(r[8])], <<>>)
             ELSE ParseFailed

\* The entries of a non-empty object, up to and including its "}".
RECURSIVE ParseEntries(_, _)
ParseEntries(toks, acc) ==
    IF /\ Len(toks) >= 4
       /\ IsStrTok(toks[1]) /\ toks[2] = P(":") /\ IsStrTok(toks[3])
    THEN LET m == MapSet(acc, StrOf(toks[1]), StrOf(toks[3]))
         IN  IF toks[4] = P(",") THEN ParseEntries(SubSeq(toks, 5, Len(toks)), m)
             ELSE IF toks[4] = P("}") /\ Len(toks) = 4 THEN Parsed(m, <<>>)
             ELSE ParseFailed
    ELSE ParseFailed

\* JSON.parse of the text of a CwdMap file.
ParseCwdMap(text) ==
    IF Len(text) < 2 \/ text[1] # P("{") THEN ParseFailed
    ELSE IF text[2] = P("}") /\ Len(text) = 2 THEN Parsed(EmptyMap, <<>>)
    ELSE ParseEntries(Tail(text), EmptyMap)

\* A read that hands out an empty snapshot when the file cannot be parsed.
readStateFileDefaulting(file) ==
    IF file = Missing THEN Absent
    ELSE IF ParseState(file).ok THEN <<ParseState(file).value>>
    ELSE <<[terminals |-> <<>>, savedAt |-> 0, gracefulExit |-> FALSE]>>

\* readStateFile(dir): the parsed content, undefined when the file is missing
\* or its content is not valid.
readStateFile(file) ==
    IF file = Missing \/ ~ParseState(file).ok THEN Absent
    ELSE <<ParseState(file).value>>

\* readCwdMapFile(dir)
readCwdMapFile(file) ==
    IF file = Missing \/ ~ParseCwdMap(file).ok THEN Absent
    ELSE <<ParseCwdMap(file).value>>

\* writeStateFile(dir, state): the file holds the serialised state when the
\* call returns (writeFileSync).
WriteStateFile(state) ==
    /\ store' = [store EXCEPT !.stateFile = StringifyState(state),
                              !.op = "writeStateFile",
                              !.stateWritten = <<state>>,
                              !.result = Absent,
                              !.stateOverwrote = (store.stateWritten # Absent),
                              !.threw = FALSE]
    /\ UNCHANGED <<terminalCwdMap, windowTerminals, workspaceFolders, platform,
                   cwdMapRecord, tasks, globalState, config, now, restore,
                   hostCalls, timers, nextId, createFails, saveInterval,
                   armedTimers, passes, closedTerminals, openTimers, durable,
                   pendingWrites, calc>>

ReadStateFile ==
    /\ store' = [store EXCEPT !.op = "readStateFile",
                              !.result = readStateFile(store.stateFile),
                              !.threw = FALSE]
    /\ UNCHANGED <<terminalCwdMap, windowTerminals, workspaceFolders, platform,
                   cwdMapRecord, tasks, globalState, config, now, restore,
                   hostCalls, timers, nextId, createFails, saveInterval,
                   armedTimers, passes, closedTerminals, openTimers, durable,
                   pendingWrites, calc>>

\* deleteStateFile(dir): the file is gone; a missing file is not an error.
DeleteStateFile ==
    /\ store' = [store EXCEPT !.stateFile = Missing,
                              !.op = "deleteStateFile",
                              !.stateWritten = Absent,
                              !.result = Absent,
                              !.stateOverwrote = FALSE,
                              !.threw = FALSE]
    /\ UNCHANGED <<terminalCwdMap, windowTerminals, workspaceFolders, platform,
                   cwdMapRecord, tasks, globalState, config, now, restore,
                   hostCalls, timers, nextId, createFails, saveInterval,
                   armedTimers, passes, closedTerminals, openTimers, durable,
                   pendingWrites, calc>>

WriteCwdMapFile(m) ==
    /\ store' = [store EXCEPT !.cwdMapFile = StringifyCwdMap(m),
                              !.op = "writeCwdMapFile",
                              !.cwdMapWritten = <<m>>,
                              !.result = Absent,
                              !.cwdMapOverwrote = (store.cwdMapWritten # Absent),
                              !.threw = FALSE]
    /\ UNCHANGED <<terminalCwdMap, windowTerminals, workspaceFolders, platform,
                   cwdMapRecord, tasks, globalState, config, now, restore,
                   hostCalls, timers, nextId, createFails, saveInterval,
                   armedTimers, passes, closedTerminals, openTimers, durable,
                   pendingWrites, calc>>

ReadCwdMapFile ==
    /\ store' = [store EXCEPT !.op = "readCwdMapFile",
                              !.result = readCwdMapFile(store.cwdMapFile),
                              !.threw = FALSE]
    /\ UNCHANGED <<terminalCwdMap, windowTerminals, workspaceFolders, platform,
                   cwdMapRecord, tasks, globalState, config, now, restore,
                   hostCalls, timers, nextId, createFails, saveInterval,
                   armedTimers, passes, closedTerminals, openTimers, durable,
                   pendingWrites, calc>>

\* Something else leaves a text in the state file (a torn or foreign write).
StateFileCorrupted(text) ==
    /\ store.stateFile # text
    /\ store' = [store EXCEPT !.stateFile = text,
                              !.op = "corrupted",
                              !.stateWritten = Absent,
                              !.result = Absent,
                              !.stateOverwrote = FALSE,
                              !.threw = FALSE]
    /\ UNCHANGED <<terminalCwdMap, windowTerminals, workspaceFolders, platform,
                   cwdMapRecord, tasks, globalState, config, now, restore,
                   hostCalls, timers, nextId, createFails, saveInterval,
                   armedTimers, passes, closedTerminals, openTimers, durable,
                   pendingWrites, calc>>

\* The same for the CwdMap file.
CwdMapFileCorrupted(text) ==
    /\ store.cwdMapFile # text
    /\ store' = [store EXCEPT !.cwdMapFile = text,
                              !.op = "corrupted",
                              !.cwdMapWritten = Absent,
                              !.result = Absent,
                              !.cwdMapOverwrote = FALSE,
                              !.threw = FALSE]
    /\ UNCHANGED <<terminalCwdMap, windowTerminals, workspaceFolders, platform,
                   cwdMapRecord, tasks, globalState, config, now, restore,
                   hostCalls, timers, nextId, createFails, saveInterval,
                   armedTimers, passes, closedTerminals, openTimers, durable,
                   pendingWrites, calc>>

\* On activation the reconciler takes the snapshot the store's read returned.
ReconcileFromStore ==
    /\ restore.pc = "idle"
    /\ store.op = "readStateFile"
    /\ globalState' = store.result
    /\ restore' = Waiting("start", <<>>, <<>>)
    /\ UNCHANGED <<terminalCwdMap, windowTerminals, workspaceFolders, platform,
                   cwdMapRecord, tasks, config, now, hostCalls, timers, nextId,
                   createFails, saveVars>>

\* --------------------------------------------------- the store specification

\* No terminal, each one alone, and the two together.
StoreLists ==
    { <<>>,
      <<[cwd |-> DirA, name |-> NameA]>>,
      <<[cwd |-> DirB, name |-> Undefined]>>,
      <<[cwd |-> DirA, name |-> NameA], [cwd |-> DirB, name |-> Undefined]>> }

StoreSnapshots ==
    { [terminals |-> ts, savedAt |-> SavedAt, gracefulExit |-> g] :
         ts \in StoreLists, g \in BOOLEAN }

NotJson == <<"n", "o", "t", " ", "j", "s", "o", "n">>

\* Texts that are not the serialisation of a snapshot: an empty file, words,
\* a serialisation cut short and one followed by more.
CorruptTexts ==
    LET text == StringifyState([terminals |-> <<[cwd |-> DirA, name |-> NameA]>>,
                                savedAt |-> SavedAt, gracefulExit |-> FALSE])
    IN  { <<>>, <<NotJson>>, SubSeq(text, 1, 7), text \o <<P("}")>> }

\* A new process with an empty state directory, restore enabled, no terminal open.
InitStore ==
    /\ terminalCwdMap = EmptyMap
    /\ windowTerminals = <<>>
    /\ workspaceFolders = <<>>
    /\ platform = "darwin"
    /\ cwdMapRecord = EmptyMap
    /\ tasks = <<>>
    /\ globalState = Absent
    /\ config = [enableDirectoryRestore |-> TRUE, autoLaunchCommand |-> <<" ">>,
                 autoNameByFolder |-> FALSE]
    /\ now = SavedAt + 1
    /\ restore = RestoreIdle
    /\ hostCalls = <<>>
    /\ timers = <<>>
    /\ nextId = 1
    /\ createFails = {}
    /\ SchedulerIdle

NextStore ==
    \/ \E state \in StoreSnapshots : WriteStateFile(state)
    \/ ReadStateFile
    \/ DeleteStateFile
    \/ \E m \in CwdMapRecords : WriteCwdMapFile(m)
    \/ ReadCwdMapFile
    \/ \E text \in CorruptTexts : StateFileCorrupted(text)
    \/ \E text \in CorruptTexts : CwdMapFileCorrupted(text)
    \/ ReconcileFromStore
    \/ RestoreBegin
    \/ RestoreCleared

SpecStore == InitStore /\ [][NextStore]_vars

\* ------------------------------------------------- the status of a terminal

StrClaude == <<"c", "l", "a", "u", "d", "e">>

\* String.prototype.endsWith
EndsWith(s, suffix) ==
    Len(s) >= Len(suffix) /\ SubSeq(s, Len(s) - Len(suffix) + 1, Len(s)) = suffix

\* A match on any name that contains the word.
isClaudeProcessBySubstring(processName) ==
    Includes(Trim(ToLowerCase(processName)), StrClaude)

\* isClaudeProcess (utils.ts lines 52-56)
isClaudeProcess(processName) ==
    LET name == Trim(ToLowerCase(processName))
    IN  name = StrClaude \/ EndsWith(name, <<"/">> \o StrClaude)

\* One line of `ps -eo pid,ppid,comm`, as getChildPids reads it.
PsRow(pid, ppid, comm) == [pid |-> pid, ppid |-> ppid, comm |-> comm]

\* getChildPids(parentPid): the rows whose ppid is parentPid, in output order.
RECURSIVE getChildPids(_, _)
getChildPids(rows, parentPid) ==
    IF rows = <<>> THEN <<>>
    ELSE (IF Head(rows).ppid = parentPid THEN <<Head(rows)>> ELSE <<>>)
         \o getChildPids(Tail(rows), parentPid)

\* The loop of lines 89-96: the pid of the first child that is the tool, 0
\* (null) when there is none.
RECURSIVE FirstClaudePid(_)
FirstClaudePid(children) ==
    IF children = <<>> THEN 0
    ELSE IF isClaudeProcess(Head(children).comm) THEN Head(children).pid
    ELSE FirstClaudePid(Tail(children))

\* backgroundProcesses (line 107)
backgroundProcesses ==
    << <<"n", "o", "d", "e">>, <<"n", "p", "x">>, <<"n", "p", "m">>,
       <<"m", "c", "p">>, <<"u", "v", "x">>, <<"u", "v">>,
       <<"p", "y", "t", "h", "o", "n">>, <<"p", "y", "t", "h", "o", "n", "3">>,
       StrClaude >>

\* A filter that keeps every child.
CountsEveryChild(proc) == TRUE

\* The filter of lines 108-125: a child counts unless its lower-cased name
\* contains a background fragment; every other branch returns true.
IsActiveChild(proc) ==
    LET name == ToLowerCase(proc)
    IN  ~\E i \in DOMAIN backgroundProcesses : Includes(name, backgroundProcesses[i])

NoClaude == [hasClaude |-> FALSE, isActive |-> FALSE]

\* What the body of the try block does: it returns a status or throws.
StatusReturned(status) == [threw |-> FALSE, status |-> status]
StatusThrew == [threw |-> TRUE, status |-> NoClaude]

\* Lines 73-127, inside the try: pid is what terminal.processId resolved to
\* (0: undefined), ps what execAsync gave (fails: the promise rejected).
ClaudeStatusBody(pid, ps) ==
    IF pid = 0 THEN StatusReturned(NoClaude)
    ELSE IF ps.fails THEN StatusThrew
    ELSE LET claudePid == FirstClaudePid(getChildPids(ps.rows, pid))
             claudeChildren == getChildPids(ps.rows, claudePid)
             activeChildren == { i \in DOMAIN claudeChildren :
                                   IsActiveChild(claudeChildren[i].comm) }
         IN  IF claudePid = 0 THEN StatusReturned(NoClaude)
             ELSE StatusReturned([hasClaude |-> TRUE,
                                  isActive |-> activeChildren # {}])

\* A call without the catch: what the body throws reaches the caller.
getClaudeStatusUncaught(pid, ps) ==
    [status |-> ClaudeStatusBody(pid, ps).status,
     rejected |-> ClaudeStatusBody(pid, ps).threw]

\* getClaudeStatus (lines 71-131): the catch turns a throw into the absent
\* status, so the promise never rejects.
getClaudeStatus(pid, ps) ==
    [status |-> IF ClaudeStatusBody(pid, ps).threw THEN NoClaude
                ELSE ClaudeStatusBody(pid, ps).status,
     rejected |-> FALSE]

\* updateStatusBar asks for the status of terminal i (line 158).
ClassifyTerminal(i, ps) ==
    /\ calc' = [fn |-> "getClaudeStatus", term |-> windowTerminals[i].id,
                pid |-> windowTerminals[i].pid, ps |-> ps,
                result |-> getClaudeStatus(windowTerminals[i].pid, ps)]
    /\ UNCHANGED <<terminalCwdMap, windowTerminals, workspaceFolders, platform,
                   cwdMapRecord, tasks, globalState, config, now, restore,
                   hostCalls, timers, nextId, createFails, saveInterval,
                   armedTimers, passes, closedTerminals, openTimers, durable,
                   pendingWrites, store>>

\* isClaudeProcess applied to a process name.
MatchProcessName(processName) ==
    /\ calc' = [fn |-> "isClaudeProcess", name |-> processName,
                result |-> isClaudeProcess(processName)]
    /\ UNCHANGED <<terminalCwdMap, windowTerminals, workspaceFolders, platform,
                   cwdMapRecord, tasks, globalState, config, now, restore,
                   hostCalls, timers, nextId, createFails, saveInterval,
                   armedTimers, passes, closedTerminals, openTimers, durable,
                   pendingWrites, store>>

\* ------------------------------------------------- the status specification

StrNode == <<"n", "o", "d", "e">>
StrBash == <<"b", "a", "s", "h">>
StrGit == <<"g", "i", "t">>
StrHelper == StrClaude \o <<"-", "h", "e", "l", "p", "e", "r">>
StrBinClaude == <<"/", "b", "i", "n", "/">> \o StrClaude

\* Process names: the tool by name, capitalised, by path and with blanks
\* around it; names that only contain the word; and other programs.
ProcessNames ==
    { StrClaude,
      <<"C">> \o Tail(StrClaude),
      StrBinClaude,
      <<" ">> \o StrClaude \o <<" ">>,
      StrHelper,
      StrClaude \o <<"-", "m", "c", "p">>,
      <<"s", "o", "m", "e", "-">> \o StrClaude \o <<"-", "t", "h", "i", "n", "g">>,
      StrClaude \o <<"/">>,
      <<"z", "s", "h">>, StrBash, StrNode, <<>> }

\* Names of children of the tool: helpers of the deny list (one capitalised,
\* one only containing a fragment), a shell, a utility, an unknown program.
ToolChildNames ==
    { StrNode, <<"N">> \o Tail(StrNode), <<"m", "c", "p", "-", "f", "s">>,
      <<"p", "n", "p", "m">>, StrClaude, StrBash, StrGit, <<"x", "y", "z">> }

\* Process tables for a shell of pid 1: the shell's children are pids 2 and 3,
\* the children of pid 2 are pids 4 and 5.
PsTables ==
    { <<>> }
    \cup { <<PsRow(2, 1, n)>> : n \in {StrClaude, StrBinClaude, StrHelper, StrBash} }
    \cup { <<PsRow(2, 1, n), PsRow(4, 2, c)>> :
              n \in {StrClaude, StrBinClaude, StrHelper, StrBash}, c \in ToolChildNames }
    \cup { <<PsRow(2, 1, StrClaude), PsRow(4, 2, c), PsRow(5, 2, d)>> :
              c \in {StrNode, StrGit}, d \in {StrNode, StrBash} }
    \cup { <<PsRow(2, 1, StrBash), PsRow(4, 2, StrClaude), PsRow(5, 4, StrBash)>>,
           <<PsRow(2, 1, StrClaude), PsRow(3, 1, StrClaude), PsRow(5, 3, StrBash)>>,
           <<PsRow(2, 1, StrBash), PsRow(3, 1, StrClaude), PsRow(5, 3, StrGit)>> }

PsResults ==
    { [fails |-> TRUE, rows |-> <<>>] } \cup { [fails |-> FALSE, rows |-> r] : r \in PsTables }

\* One terminal with or without a process id, nothing else going on.
InitStatus ==
    /\ terminalCwdMap = EmptyMap
    /\ windowTerminals \in { WithIds(<<Terminal(0, NameA, Undefined, Undefined, p)>>) :
                               p \in {0, 1} }
    /\ workspaceFolders = <<>>
    /\ platform = "darwin"
    /\ cwdMapRecord = EmptyMap
    /\ tasks = <<>>
    /\ globalState = Absent
    /\ config = NoConfig
    /\ now = 0
    /\ restore = RestoreIdle
    /\ hostCalls = <<>>
    /\ timers = <<>>
    /\ nextId = 2
    /\ createFails = {}
    /\ SchedulerIdle

NextStatus ==
    \/ \E i \in DOMAIN windowTerminals, ps \in PsResults : ClassifyTerminal(i, ps)
    \/ \E n \in ProcessNames : MatchProcessName(n)

SpecStatus == InitStatus /\ [][NextStatus]_vars

\* Tracking and classification of the same terminals, each with queries that fail.
NextFailures ==
    \/ \E i \in DOMAIN windowTerminals : TrackTerminal(i)
    \/ \E i \in DOMAIN windowTerminals : GetCwdCall(i)
    \/ \E s \in Slots : PidResolved(s)
    \/ \E s \in Slots, tree \in ProcTrees : ProcessCwdResolved(s, tree)
    \/ \E i \in DOMAIN windowTerminals,
          ps \in { r \in PsResults : r.fails \/ Len(r.rows) = 1 } : ClassifyTerminal(i, ps)

SpecFailures == InitTrack /\ [][NextFailures]_vars

\* ------------------------------------------------------------------ the grid

\* An EditorLayoutGroup without a groups property (a leaf) and one with it;
\* an EditorLayout, the layout that is undefined, and one without groups.
LeafGroup == [hasGroups |-> FALSE, groups |-> <<>>]
NestedGroup(groups) == [hasGroups |-> TRUE, groups |-> groups]
EditorLayout(orientation, groups) ==
    [defined |-> TRUE, orientation |-> orientation, hasGroups |-> TRUE,
     groups |-> groups]
NoLayout == [defined |-> FALSE, orientation |-> 0, hasGroups |-> FALSE, groups |-> <<>>]
LayoutWithoutGroups ==
    [defined |-> TRUE, orientation |-> 0, hasGroups |-> FALSE, groups |-> <<>>]

\* A reading of the layout that takes a stacked layout for side-by-side.
getGridDimensionsSideBySide(layout) ==
    IF ~layout.defined \/ ~layout.hasGroups \/ Len(layout.groups) = 0
    THEN [rows |-> 1, cols |-> 1]
    ELSE [rows |-> IF layout.groups[1].hasGroups
                   THEN Len(layout.groups[1].groups) ELSE 1,
          cols |-> Len(layout.groups)]

\* getGridDimensions (part_001 lines 238-265)
getGridDimensions(layout) ==
    IF ~layout.defined \/ ~layout.hasGroups \/ Len(layout.groups) = 0
    THEN [rows |-> 1, cols |-> 1]
    ELSE IF Len(layout.groups) = 1 /\ ~layout.groups[1].hasGroups
    THEN [rows |-> 1, cols |-> 1]
    ELSE LET firstGroup == layout.groups[1]
             nested == IF firstGroup.hasGroups THEN Len(firstGroup.groups) ELSE 1
         IN  IF layout.orientation = 0
             THEN [rows |-> nested, cols |-> Len(layout.groups)]
             ELSE [rows |-> Len(layout.groups), cols |-> nested]

SplitRightStep == [action |-> "splitRight", group |-> 0]
SplitDownStep == [action |-> "splitDown", group |-> 0]
FocusGroupStep(group) == [action |-> "focusGroup", group |-> group]

\* One split too many.
RightSplitsOneMore(cols) == [c \in 1..cols |-> SplitRightStep]

\* for (let c = 1; c < cols; c++) plan.push({ action: 'splitRight' })
RightSplits(cols) == [c \in 1..(cols - 1) |-> SplitRightStep]

\* A plan that never focuses a group.
NeverFocus(cols) == FALSE

\* if (cols > 1) plan.push({ action: 'focusGroup', group: c + 1 })
NeedsFocus(cols) == cols > 1

\* The body of the loop over columns, for column c (0-based), and the loop
\* from column c on (part_001 lines 286-296).
RECURSIVE ColumnSteps(_, _, _)
ColumnSteps(c, rows, cols) ==
    IF c >= cols THEN <<>>
    ELSE (IF NeedsFocus(cols) THEN <<FocusGroupStep(c + 1)>> ELSE <<>>)
         \o [r \in 1..(rows - 1) |-> SplitDownStep]
         \o ColumnSteps(c + 1, rows, cols)

\* createGridSplitPlan (part_001 lines 273-299)
createGridSplitPlan(rows, cols) ==
    IF rows = 1 /\ cols = 1 THEN <<>>
    ELSE RightSplits(cols) \o (IF rows > 1 THEN ColumnSteps(0, rows, cols) ELSE <<>>)

\* getGridCellGroup keeping to columns first.
getGridCellGroupByColumn(row, col, rows, cols) == col * cols + row + 1

\* getGridCellGroup (part_001 lines 310-312)
getGridCellGroup(row, col, rows, cols) == row * cols + col + 1

\* The host's editor area as far as a plan shapes it: the children of the top
\* level in order (columns when orientation is 0, rows when it is 1), each the
\* sequence of the groups it holds; a child of one group is a leaf.
BlankCanvas == [orientation |-> 0, groups |-> <<<<1>>>>]

CanvasCells(canvas) ==
    UNION { { <<i, j>> : j \in DOMAIN canvas.groups[i] } : i \in DOMAIN canvas.groups }

CellOf(canvas, group) ==
    CHOOSE cell \in CanvasCells(canvas) : canvas.groups[cell[1]][cell[2]] = group

InsertAfter(q, k, x) == SubSeq(q, 1, k) \o <<x>> \o SubSeq(q, k + 1, Len(q))

\* Can the canvas take the split: one that would nest a third level is outside
\* the grids a plan makes.
CanSplit(canvas, active, direction) ==
    \/ Cardinality(CanvasCells(canvas)) = 1
    \/ direction # canvas.orientation
    \/ Len(canvas.groups[CellOf(canvas, active)[1]]) = 1

\* workbench.action.splitEditorRight (direction 0) and splitEditorDown
\* (direction 1) on the active group: the new group comes right after it.
SplitCanvas(canvas, active, new, direction) ==
    LET cell == CellOf(canvas, active)
    IN  IF Cardinality(CanvasCells(canvas)) = 1
        THEN [orientation |-> direction, groups |-> <<<<active>>, <<new>>>>]
        ELSE IF direction = canvas.orientation
        THEN [canvas EXCEPT !.groups = InsertAfter(@, cell[1], <<new>>)]
        ELSE [canvas EXCEPT !.groups[cell[1]] = InsertAfter(@, cell[2], new)]

\* Numbers in the order of the layout tree: each child in turn, whole.
TreeOrderBefore(canvas, a, b) == a[1] < b[1] \/ (a[1] = b[1] /\ a[2] < b[2])

\* Is cell a before cell b in reading order, left to right and top to bottom
\* by the place of the cell's top left corner? Cells of a column share its
\* height evenly.
ReadingOrderBefore(canvas, a, b) ==
    IF canvas.orientation = 1
    THEN a[1] < b[1] \/ (a[1] = b[1] /\ a[2] < b[2])
    ELSE LET topA == (a[2] - 1) * Len(canvas.groups[b[1]])
             topB == (b[2] - 1) * Len(canvas.groups[a[1]])
         IN  topA < topB \/ (topA = topB /\ a[1] < b[1])

\* The group the host numbers n (1-based), 0 when there is none.
GroupNumbered(canvas, n) ==
    LET cells == CanvasCells(canvas)
        hits == { cell \in cells :
                    Cardinality({ b \in cells : ReadingOrderBefore(canvas, b, cell) }) = n - 1 }
    IN  IF hits = {} THEN 0
        ELSE LET cell == CHOOSE c \in hits : TRUE IN canvas.groups[cell[1]][cell[2]]

\* The layout tree the host reports for the canvas.
LayoutOf(canvas) ==
    EditorLayout(canvas.orientation,
                 [i \in DOMAIN canvas.groups |->
                     IF Len(canvas.groups[i]) = 1 THEN LeafGroup
                     ELSE NestedGroup([j \in DOMAIN canvas.groups[i] |-> LeafGroup])])

MaxGrid == 4

\* A plan for a rows x cols grid is made and a blank canvas set up for it.
PlanGrid(rows, cols) ==
    /\ calc' = [fn |-> "createGridSplitPlan", rows |-> rows, cols |-> cols,
                plan |-> createGridSplitPlan(rows, cols), done |-> 0,
                canvas |-> BlankCanvas, active |-> 1, newGroup |-> 2]
    /\ UNCHANGED <<terminalCwdMap, windowTerminals, workspaceFolders, platform,
                   cwdMapRecord, tasks, globalState, config, now, restore,
                   hostCalls, timers, nextId, createFails, saveInterval,
                   armedTimers, passes, closedTerminals, openTimers, durable,
                   pendingWrites, store>>

\* The next step of the plan is carried out on the canvas.
PlanStep ==
    /\ calc.fn = "createGridSplitPlan"
    /\ calc.done < Len(calc.plan)
    /\ LET step == calc.plan[calc.done + 1]
           direction == IF step.action = "splitRight" THEN 0 ELSE 1
       IN  IF step.action = "focusGroup"
           THEN calc' = [calc EXCEPT
                           !.done = @ + 1,
                           !.active = IF GroupNumbered(calc.canvas, step.group) = 0
                                      THEN @
                                      ELSE GroupNumbered(calc.canvas, step.group)]
           ELSE /\ CanSplit(calc.canvas, calc.active, direction)
                /\ calc' = [calc EXCEPT
                              !.done = @ + 1,
                              !.canvas = SplitCanvas(@, calc.active, calc.newGroup,
                                                     direction),
                              !.active = calc.newGroup,
                              !.newGroup = @ + 1]
    /\ UNCHANGED <<terminalCwdMap, windowTerminals, workspaceFolders, platform,
                   cwdMapRecord, tasks, globalState, config, now, restore,
                   hostCalls, timers, nextId, createFails, saveInterval,
                   armedTimers, passes, closedTerminals, openTimers, durable,
                   pendingWrites, store>>

\* getGridDimensions applied to a layout.
MeasureLayout(layout) ==
    /\ calc' = [fn |-> "getGridDimensions", layout |-> layout,
                result |-> getGridDimensions(layout)]
    /\ UNCHANGED <<terminalCwdMap, windowTerminals, workspaceFolders, platform,
                   cwdMapRecord, tasks, globalState, config, now, restore,
                   hostCalls, timers, nextId, createFails, saveInterval,
                   armedTimers, passes, closedTerminals, openTimers, durable,
                   pendingWrites, store>>

\* getGridCellGroup applied to every cell of a rows x cols grid.
NumberCells(rows, cols) ==
    /\ calc' = [fn |-> "getGridCellGroup", rows |-> rows, cols |-> cols,
                result |-> [cell \in (0..(rows - 1)) \X (0..(cols - 1)) |->
                              getGridCellGroup(cell[1], cell[2], rows, cols)]]
    /\ UNCHANGED <<terminalCwdMap, windowTerminals, workspaceFolders, platform,
                   cwdMapRecord, tasks, globalState, config, now, restore,
                   hostCalls, timers, nextId, createFails, saveInterval,
                   armedTimers, passes, closedTerminals, openTimers, durable,
                   pendingWrites, store>>

\* --------------------------------------------------- the grid specification

\* Children of a layout: leaves and groups of one to three nested leaves.
LayoutChildren ==
    { LeafGroup } \cup { NestedGroup([j \in 1..m |-> LeafGroup]) : m \in 0..3 }

\* The undefined layout, a layout without groups, and layouts of either
\* orientation with one to three children, alike or not.
Layouts ==
    { NoLayout, LayoutWithoutGroups }
    \cup { EditorLayout(o, <<>>) : o \in {0, 1} }
    \cup { EditorLayout(o, [i \in 1..n |-> IF i = 1 THEN first ELSE other]) :
              o \in {0, 1}, n \in 1..3, first \in LayoutChildren,
              other \in LayoutChildren }

\* No terminal open, nothing stored, no function called yet.
InitGrid ==
    /\ terminalCwdMap = EmptyMap
    /\ windowTerminals = <<>>
    /\ workspaceFolders = <<>>
    /\ platform = "darwin"
    /\ cwdMapRecord = EmptyMap
    /\ tasks = <<>>
    /\ globalState = Absent
    /\ config = NoConfig
    /\ now = 0
    /\ restore = RestoreIdle
    /\ hostCalls = <<>>
    /\ timers = <<>>
    /\ nextId = 1
    /\ createFails = {}
    /\ SchedulerIdle

NextGrid ==
    \/ \E rows \in 1..MaxGrid, cols \in 1..MaxGrid : PlanGrid(rows, cols)
    \/ PlanStep
    \/ \E layout \in Layouts : MeasureLayout(layout)
    \/ \E rows \in 1..MaxGrid, cols \in 1..MaxGrid : NumberCells(rows, cols)

SpecGrid == InitGrid /\ [][NextGrid]_vars

\* ------------------------------------------------- claims on the scheduler

\* The entries a step appended to the list of the pass that stands at
\* passes'[j]: their positions in the list (and in the array it iterates).
NewEntries(j) ==
    LET before == { k \in DOMAIN passes : passes[k].started = passes'[j].started }
        had == IF before = {} THEN 0
               ELSE Len(passes[CHOOSE k \in before : TRUE].out)
    IN  (had + 1)..Len(passes'[j].out)

\* The terminal the n-th entry of a collecting pass was pushed for.
CollectedTerminal(p, n) == TerminalById(p.terms[n])

\* C11: a snapshot never downgrades a session: when collectTerminalState
\* pushes the entry of a terminal whose identity holds a valid cwd in
\* terminalCwdMap, the cwd it records is neither the home directory nor '/',
\* whatever shell integration or the process tree reports at that moment.
C11_SnapshotNeverDowngrades ==
    [][\A j \in DOMAIN passes' : \A n \in NewEntries(j) :
          LET t == CollectedTerminal(passes'[j], n)
          IN  isValidCwd(MapGet(terminalCwdMap', getTerminalKey(t)))
                  => passes'[j].out[n].cwd \notin {homeDir, Root}]_vars

\* The passes that issued their snapshot write in this step.
WritingPasses ==
    { j \in DOMAIN passes' :
        /\ passes'[j].phase = "saving"
        /\ \A k \in DOMAIN passes :
              passes[k].started = passes'[j].started => passes[k].phase # "saving" }

\* Did the pass at passes'[j] begin collectTerminalState in this step?
BeganCollecting(j) ==
    \A k \in DOMAIN passes :
        passes[k].started = passes'[j].started => passes[k].phase = "track"

\* C12: every snapshot the scheduler writes holds exactly one entry per
\* terminal that was open when the pass began collecting, in the order
\* the host enumerates them, each under the terminal's name and with a
\* non-empty cwd: a terminal whose cwd is unknown is recorded (with the home
\* directory), not left out.
C12_OneEntryPerSession ==
    [][\A j \in DOMAIN passes' :
          /\ (passes'[j].phase # "track" /\ BeganCollecting(j))
                 => passes'[j].terms = OpenIds
          /\ j \in WritingPasses =>
                LET p == passes'[j]
                    written == globalState'[1].terminals
                IN  /\ globalState' # Absent
                    /\ written = p.out
                    /\ Len(written) = Len(p.terms)
                    /\ \A n \in DOMAIN written :
                          /\ written[n].name = CollectedTerminal(p, n).name
                          /\ Truthy(written[n].cwd)]_vars

\* A pass has written a snapshot of two terminals of which nothing is known
\* (no shell integration, no creation cwd, no entry in the map): both are
\* recorded, with the home directory.
C12_Witness ==
    \E j \in DOMAIN passes :
        /\ passes[j].phase = "saving"
        /\ Len(passes[j].terms) = 2
        /\ globalState # Absent
        /\ globalState[1].terminals = passes[j].out
        /\ \A n \in 1..2 :
              LET t == CollectedTerminal(passes[j], n)
              IN  /\ ~Truthy(t.shell)
                  /\ ~Truthy(t.ccwd)
                  /\ ~MapHas(terminalCwdMap, getTerminalKey(t))
                  /\ globalState[1].terminals[n] = [cwd |-> homeDir, name |-> t.name]

\* A step of a periodic pass: the timer fires or an await of a pass resumes.
PassStep ==
    \/ \E h \in armedTimers : Tick(h)
    \/ \E j \in DOMAIN passes : PassPidResolved(j)
    \/ \E j \in DOMAIN passes, tree \in ProcTrees : PassProcessCwdResolved(j, tree)

\* The passes (by the tick that started them) that end collectTerminalState
\* in this step.
FinishedCollecting ==
    { b \in { passes[k].started : k \in { i \in DOMAIN passes :
                                           passes[i].phase # "saving" } }
           \cup (IF now' # now THEN {now'} ELSE {}) :
        ~\E k \in DOMAIN passes' : /\ passes'[k].started = b
                                   /\ passes'[k].phase \in {"track", "collect"} }

\* The terminals pass b collects: the array its loop took, in this step or
\* in an earlier one.
CollectTermsOf(b) ==
    LET earlier == { k \in DOMAIN passes : /\ passes[k].started = b
                                          /\ passes[k].phase = "collect" }
    IN  IF earlier = {} THEN OpenIds
        ELSE passes[CHOOSE k \in earlier : TRUE].terms

\* Pass b wrote, in this step, a snapshot of the given terminals taken now,
\* with gracefulExit = false.
WroteFreshSnapshot(b, terms) ==
    \E j \in WritingPasses :
        /\ passes'[j].started = b
        /\ globalState' # Absent
        /\ globalState'[1].gracefulExit = FALSE
        /\ globalState'[1].savedAt = now'
        /\ Len(globalState'[1].terminals) = Len(terms)
        /\ \A n \in DOMAIN terms :
              globalState'[1].terminals[n].name = TerminalById(terms[n]).name
        /\ pendingWrites' # <<>>
        /\ pendingWrites'[Len(pendingWrites')].key = "state"
        /\ pendingWrites'[Len(pendingWrites')].image.state = globalState'

\* C13 as stated: whatever the number of open terminals, every pass that ends
\* writes a fresh snapshot (gracefulExit = false, savedAt = now) whose
\* sessions are the terminals that were open when it collected.
C13_EveryTickWrites ==
    [][PassStep => \A b \in FinishedCollecting :
                      WroteFreshSnapshot(b, CollectTermsOf(b))]_vars

\* A timer callback that ran without suspending has tracked every open
\* terminal before collecting: a valid shell-integration cwd is in the map.
TrackedBeforeCollecting ==
    (now' # now /\ now' \in FinishedCollecting) =>
        \A i \in DOMAIN windowTerminals :
            isValidCwd(windowTerminals[i].shell) =>
                MapGet(terminalCwdMap', getTerminalKey(windowTerminals[i]))
                    = windowTerminals[i].shell

\* C13, amended: a pass re-resolves every open terminal first; when it ends
\* collecting it writes a fresh snapshot (gracefulExit = false, savedAt =
\* now) of the terminals that were open when it began collecting, provided
\* there was at least one; with none open it writes no snapshot and the
\* stored one stays as it was.
C13_TickWritesUnlessEmpty ==
    [][PassStep =>
          /\ TrackedBeforeCollecting
          /\ \A b \in FinishedCollecting :
                IF CollectTermsOf(b) = <<>>
                THEN /\ globalState' = globalState
                     /\ \A w \in DOMAIN pendingWrites' :
                           (pendingWrites'[w].key = "state")
                               => /\ w \in DOMAIN pendingWrites
                                  /\ pendingWrites[w] = pendingWrites'[w]
                ELSE WroteFreshSnapshot(b, CollectTermsOf(b))]_vars

\* The second tick has replaced the snapshot of the first with a fresh one
\* of the open terminals, gracefulExit = false.
C13_Witness ==
    /\ now = 2 * SAVE_INTERVAL_MS
    /\ durable.state # Absent
    /\ durable.state[1].savedAt = SAVE_INTERVAL_MS
    /\ globalState # Absent
    /\ globalState[1].savedAt = now
    /\ globalState[1].gracefulExit = FALSE
    /\ Len(globalState[1].terminals) = Len(windowTerminals)
    /\ Len(windowTerminals) > 0
    /\ \E j \in DOMAIN passes : passes[j].phase = "saving" /\ passes[j].started = now

\* At most the timer saveInterval refers to is armed.
OnlyTheCurrentTimer ==
    /\ Cardinality(armedTimers) <= 1
    /\ armedTimers \subseteq {saveInterval}
    /\ saveInterval = 0 => armedTimers = {}

\* No pass begins: no callback runs (the clock of the ticks stands) and no
\* pass appears that was not already in flight.
NoPassBegins ==
    /\ now' = now
    /\ \A j \in DOMAIN passes' :
          \E k \in DOMAIN passes : passes[k].started = passes'[j].started

\* C14: a single scheduler timer: at most one periodic-save timer is armed
\* at any time (startPeriodicSave while one is armed cancels it), and once
\* deactivate has run no timer is armed and no new pass begins.
C14_SingleTimer ==
    /\ []OnlyTheCurrentTimer
    /\ [][saveInterval = 0 /\ saveInterval' = 0 => NoPassBegins]_vars

\* startPeriodicSave ran while the first timer was armed and a pass was in
\* flight: only the second timer is armed.
C14_Witness ==
    /\ saveInterval = 2
    /\ armedTimers = {2}
    /\ passes # <<>>

TickTimes == { n * SAVE_INTERVAL_MS : n \in 1..MaxTicks }

\* The pass started at tick b has not yet finished collecting.
Unfinished(b) ==
    \E j \in DOMAIN passes : /\ passes[j].started = b
                             /\ passes[j].phase \in {"track", "collect"}

\* C15: forward progress of a pass: every periodic pass eventually finishes
\* resolving the open terminals and gets to its snapshot write, even if an
\* external process query for one terminal never returns.
C15_PassProgress == \A b \in TickTimes : Unfinished(b) ~> ~Unfinished(b)

\* The identities of the terminals open after the step.
OpenIdentities == { getTerminalKey(windowTerminals'[i]) : i \in DOMAIN windowTerminals' }

\* C16: eviction on close: when the host closes a terminal the entry of its
\* identity is removed from terminalCwdMap and the snapshot record is left
\* alone, and whatever tracking of that terminal is still delayed or in
\* flight, no entry appears for an identity that no open terminal has.
C16_EvictionOnClose ==
    [][/\ \A i \in DOMAIN windowTerminals :
            CloseTerminal(i) =>
                /\ ~MapHas(terminalCwdMap', getTerminalKey(windowTerminals[i]))
                /\ globalState' = globalState
       /\ \A key \in DOMAIN terminalCwdMap' :
            ~MapHas(terminalCwdMap, key) => key \in OpenIdentities]_vars

\* activate has gone past loadCwdMap.
MapLoaded == restore.pc # "idle"

\* C17 as stated: once reactivated, the map holds every entry of the CwdMap
\* record, identity and cwd, whatever the snapshot record was and whatever
\* the reconciler did with it, and no step of the reconciler changes the
\* CwdMap record.
C17_MapHoldsEveryRecordEntry ==
    /\ [](MapLoaded =>
             \A key \in DOMAIN cwdMapRecord :
                 MapGet(terminalCwdMap, key) = cwdMapRecord[key])
    /\ [][cwdMapRecord' = cwdMapRecord]_vars

\* The identity belongs to a terminal the replay created with directory cwd.
RegisteredByReplay(key, cwd) ==
    \E i \in DOMAIN windowTerminals :
        /\ Truthy(windowTerminals[i].ccwd)
        /\ getTerminalKey(windowTerminals[i]) = key
        /\ windowTerminals[i].ccwd = cwd

\* C17, amended: once reactivated, the map holds an entry for every identity
\* of the CwdMap record, with the recorded cwd unless the replay created a
\* terminal of that identity, in which case it holds the directory replayed
\* for such a terminal; no step of the reconciler changes the CwdMap record.
C17_RecordSurvivesReactivation ==
    /\ [](MapLoaded =>
             \A key \in DOMAIN cwdMapRecord :
                 /\ MapHas(terminalCwdMap, key)
                 /\ \/ terminalCwdMap[key] = cwdMapRecord[key]
                    \/ RegisteredByReplay(key, terminalCwdMap[key]))
    /\ [][cwdMapRecord' = cwdMapRecord]_vars

\* The replay has run on a record of two entries: one identity kept its
\* recorded cwd, the other was registered anew for a replayed terminal.
C17_Witness ==
    /\ restore.returned = "true"
    /\ DOMAIN cwdMapRecord = {KeyOfShell, KeyOfReplayedA}
    /\ MapGet(terminalCwdMap, KeyOfShell) = cwdMapRecord[KeyOfShell]
    /\ MapGet(terminalCwdMap, KeyOfReplayedA) = DirA
    /\ cwdMapRecord[KeyOfReplayedA] = DirB

\* No saveTerminalState call still awaits its update (line 513).
SnapshotWriteReturned == \A j \in DOMAIN passes : passes[j].phase # "saving"

\* C18: crash-safe write: once a write of the snapshot or of the CwdMap has
\* returned to its caller, a crash right after it loses nothing: the next
\* process reads the written value. (saveCwdMap has returned in every state;
\* saveTerminalState has returned when no pass awaits its update.)
C18_CrashSafeWrite ==
    [][CrashRestart =>
          /\ cwdMapRecord' = cwdMapRecord
          /\ SnapshotWriteReturned => globalState' = globalState]_vars

\* ------------------------------------------------------ claims on the store

\* C19: a read returns the value last written to the file, for every snapshot
\* (an empty terminal list with gracefulExit set included) and every CwdMap;
\* after two writes it is the second value.
C19_RoundTrip ==
    [][ /\ (ReadStateFile /\ store.stateWritten # Absent)
            => store'.result = store.stateWritten
        /\ (ReadCwdMapFile /\ store.cwdMapWritten # Absent)
            => store'.result = store.cwdMapWritten ]_vars

\* A second write of an empty snapshot with gracefulExit set has been read back.
C19_Witness ==
    /\ store.op = "readStateFile"
    /\ store.stateOverwrote
    /\ store.stateWritten
         = <<[terminals |-> <<>>, savedAt |-> SavedAt, gracefulExit |-> TRUE]>>
    /\ store.result = store.stateWritten
    /\ store.cwdMapWritten # Absent

\* C20: no call on the store throws; a read of a missing or corrupt file
\* returns absent, also right after a delete; and a restore handed such a read
\* returns false without a host call or a change to the terminals or the map.
C20_AbsentNeverThrows ==
    [][ /\ ~store'.threw
        /\ (ReadStateFile /\ store.stateFile \in {Missing} \cup CorruptTexts)
            => store'.result = Absent
        /\ (ReadCwdMapFile /\ store.cwdMapFile \in {Missing} \cup CorruptTexts)
            => store'.result = Absent
        /\ (DeleteStateFile /\ store.stateFile = Missing)
            => store'.stateFile = Missing
        /\ (ReadStateFile /\ store.op = "deleteStateFile")
            => store'.result = Absent
        /\ (RestoreBegin /\ globalState = Absent)
            => /\ restore' = Returned("false")
               /\ hostCalls' = hostCalls
               /\ windowTerminals' = windowTerminals
               /\ terminalCwdMap' = terminalCwdMap ]_vars

\* A corrupt state file was read and the restore given the result has returned.
C20_Witness ==
    /\ store.op = "readStateFile"
    /\ store.stateFile \in CorruptTexts
    /\ store.result = Absent
    /\ globalState = Absent
    /\ restore = Returned("false")

\* ----------------------------------------------------- claims on the restore

\* Does restoreTerminals return before it looks at any terminal: restore is
\* disabled, no snapshot is stored, or the stored snapshot is neither graceful
\* nor stale and lists no terminal.
TerminatesEarly ==
    \/ ~config.enableDirectoryRestore
    \/ globalState = Absent
    \/ /\ ~globalState[1].gracefulExit
       /\ now - globalState[1].savedAt <= maxAgeMs
       /\ globalState[1].terminals = <<>>

\* C21: early termination changes nothing: a restore that is disabled, finds no
\* snapshot, or finds a fresh non-graceful snapshot without terminals returns
\* false at once with no terminal created or disposed, no notification, no
\* timer set, and the snapshot record and terminalCwdMap as they were.
C21_EarlyTerminationChangesNothing ==
    [][ (RestoreBegin /\ TerminatesEarly)
          => /\ restore' = Returned("false")
             /\ hostCalls' = hostCalls
             /\ windowTerminals' = windowTerminals
             /\ timers' = timers
             /\ globalState' = globalState
             /\ terminalCwdMap' = terminalCwdMap ]_vars

\* An enabled restore has returned on a fresh snapshot without terminals while
\* terminals of the host were open.
C21_Witness ==
    /\ restore = Returned("false")
    /\ config.enableDirectoryRestore
    /\ globalState # Absent
    /\ globalState[1].terminals = <<>>
    /\ ~globalState[1].gracefulExit
    /\ now - globalState[1].savedAt <= maxAgeMs
    /\ Len(windowTerminals) > 0
    /\ hostCalls = <<>>

\* The calls of hostCalls that send text to terminal t, the timers armed for
\* it, and the configured command without the blanks around it.
SendsTo(t) == { j \in DOMAIN hostCalls : hostCalls[j].call = "sendText" /\ hostCalls[j].term = t }
ArmedFor(t) == { j \in DOMAIN timers : timers[j].term = t }
IsCommandOf(text, configured) ==
    /\ text # <<>>
    /\ text[1] # " " /\ text[Len(text)] # " "
    /\ \E lead \in 0..Len(configured) :
          /\ lead + Len(text) <= Len(configured)
          /\ SubSeq(configured, lead + 1, lead + Len(text)) = text
          /\ \A k \in DOMAIN configured :
                (k <= lead \/ k > lead + Len(text)) => configured[k] = " "
IsBlank(configured) == \A k \in DOMAIN configured : configured[k] = " "

\* With a command that is not blank every terminal the replay created has
\* exactly one send of the trimmed command, made or still armed, the send
\* after the creation; with a blank command nothing is sent or armed.
ExactlyOneSend ==
    IF IsBlank(config.autoLaunchCommand)
    THEN /\ timers = <<>>
         /\ \A j \in DOMAIN hostCalls : hostCalls[j].call # "sendText"
    ELSE \A i \in DOMAIN hostCalls :
            hostCalls[i].call = "createTerminal" =>
               LET t == hostCalls[i].term
               IN  /\ Cardinality(SendsTo(t)) + Cardinality(ArmedFor(t)) = 1
                   /\ \A j \in SendsTo(t) :
                         /\ j > i
                         /\ IsCommandOf(hostCalls[j].text, config.autoLaunchCommand)
                   /\ \A j \in ArmedFor(t) :
                         IsCommandOf(timers[j].text, config.autoLaunchCommand)

\* Sends happen in steps of their own, never in the step that creates.
SendIsALaterStep ==
    [][ \A j \in DOMAIN hostCalls' :
           (j > Len(hostCalls) /\ hostCalls'[j].call = "sendText")
              => /\ Len(hostCalls') = Len(hostCalls) + 1
                 /\ \E i \in DOMAIN hostCalls :
                       /\ hostCalls[i].call = "createTerminal"
                       /\ hostCalls[i].term = hostCalls'[j].term ]_vars

\* C22: launch command on replay: with a command that is not blank after
\* trimming every terminal the replay created is sent that command exactly
\* once, in a later step than its creation (the 500 ms timer firing); with a
\* blank command no text is ever sent to a replayed terminal.
C22_LaunchCommandOnReplay == []ExactlyOneSend /\ SendIsALaterStep

\* Two terminals were replayed and each has received the command.
C22_Witness ==
    /\ restore = Returned("true")
    /\ timers = <<>>
    /\ Cardinality({ i \in DOMAIN hostCalls : hostCalls[i].call = "createTerminal" }) >= 2
    /\ \A i \in DOMAIN hostCalls :
          hostCalls[i].call = "createTerminal" =>
             Cardinality(SendsTo(hostCalls[i].term)) = 1

\* ---------------------------------------------------- claims on name matching

\* Does the step resume tracking call s at the name stage: the terminal has no
\* process id, or the process tree gave no valid cwd and the value the call
\* read from the map when it began was not valid either.
ReachesNameStage(s) ==
    /\ s \in DOMAIN tasks
    /\ tasks[s].op = "track"
    /\ \/ /\ tasks[s].pc = "pid"
          /\ TerminalById(tasks[s].term).pid = 0
          /\ PidResolved(s)
       \/ /\ tasks[s].pc = "proc"
          /\ ~isValidCwd(tasks[s].existingCwd)
          /\ \E tree \in ProcTrees :
                /\ ~isValidCwd(getProcessCwd(platform, tree))
                /\ ProcessCwdResolved(s, tree)

\* The display name equals the name of directory d, lower-cased and with '_'
\* read as '-'.
FuzzyEqual(name, d) == normalizeForMatch(name) = normalizeForMatch(getFolderName(d))

\* The open project roots and the directories listed under a search root.
FuzzyCandidates ==
    { workspaceFolders[i] : i \in DOMAIN workspaceFolders }
    \cup UNION { { pathJoin(searchPaths[i], n) : n \in DirectoryEntries(searchPaths[i]) } :
                   i \in DOMAIN searchPaths }

\* C23: fuzzy name match or Unknown: at the name stage tracking gives the
\* identity a directory only if the display name equals that directory's name
\* up to case and '-'/'_', the directory being an open project root or an
\* entry under a search root; otherwise the identity's entry is left as it was.
C23_FuzzyMatchOrUnknown ==
    [][ \A s \in DOMAIN tasks :
           ReachesNameStage(s) =>
              LET t == TerminalById(tasks[s].term)
                  key == getTerminalKey(t)
              IN  \/ /\ MapHas(terminalCwdMap', key)
                     /\ terminalCwdMap'[key] \in FuzzyCandidates
                     /\ FuzzyEqual(t.name, terminalCwdMap'[key])
                  \/ /\ MapHas(terminalCwdMap', key) = MapHas(terminalCwdMap, key)
                     /\ MapGet(terminalCwdMap', key) = MapGet(terminalCwdMap, key) ]_vars

\* Is one of the two lower-cased names a part of the other?
OneNameInsideTheOther(name, folder) ==
    LET a == ToLowerCase(name)
        b == ToLowerCase(getFolderName(folder))
    IN  \/ \E i \in 0..(Len(a) - Len(b)) : SubSeq(a, i + 1, i + Len(b)) = b
        \/ \E i \in 0..(Len(b) - Len(a)) : SubSeq(b, i + 1, i + Len(a)) = a

\* C23 as amended: at the name stage tracking sets the identity to the first
\* open project root whose folder name, lower-cased, contains or is contained
\* in the lower-cased display name; with no such root it sets the first
\* project root unless the identity already has an entry; with no project
\* root open it leaves the map alone. No other entry changes.
C23_SubstringMatchOrFirstRoot ==
    [][ \A s \in DOMAIN tasks :
           ReachesNameStage(s) =>
              LET t == TerminalById(tasks[s].term)
                  key == getTerminalKey(t)
                  hits == { i \in DOMAIN workspaceFolders :
                              OneNameInsideTheOther(t.name, workspaceFolders[i]) }
              IN  /\ \A k \in (DOMAIN terminalCwdMap \cup DOMAIN terminalCwdMap') \ {key} :
                        MapGet(terminalCwdMap', k) = MapGet(terminalCwdMap, k)
                  /\ IF workspaceFolders = <<>>
                     THEN terminalCwdMap' = terminalCwdMap
                     ELSE IF hits # {}
                     THEN /\ MapHas(terminalCwdMap', key)
                          /\ terminalCwdMap'[key] =
                                workspaceFolders[CHOOSE i \in hits : \A j \in hits : i <= j]
                     ELSE IF MapHas(terminalCwdMap, key)
                     THEN terminalCwdMap' = terminalCwdMap
                     ELSE /\ MapHas(terminalCwdMap', key)
                          /\ terminalCwdMap'[key] = workspaceFolders[1] ]_vars

\* A terminal whose name is no part of the name of either open root, and an
\* open root the name is part of that is not the first.
C23_Witness ==
    /\ tasks = <<>>
    /\ \E i \in DOMAIN windowTerminals :
          LET t == windowTerminals[i]
              key == getTerminalKey(t)
          IN  /\ ~Truthy(t.shell) /\ ~Truthy(t.ccwd)
              /\ Len(workspaceFolders) = 2
              /\ ~OneNameInsideTheOther(t.name, workspaceFolders[1])
              /\ OneNameInsideTheOther(t.name, workspaceFolders[2])
              /\ MapHas(terminalCwdMap, key)
              /\ terminalCwdMap[key] = workspaceFolders[2]

\* ------------------------------------------------------ claims on the status

\* A process-tree query that failed: the listing of child processes threw and
\* the terminal's own process showed no directory that counts.
QueryFailed(tree) ==
    tree.psFails /\ ~(platform = "darwin" /\ DarwinHit(tree.own))

\* C24: failures become "no information": a tracking or lookup call whose
\* process-tree query failed completes and goes on as with no value (the
\* stored value if valid, else the name match; a lookup leaves the map alone),
\* and a classification without process id or with a failed query returns the
\* absent status; no call rejects.
C24_FailuresBecomeNoInformation ==
    [][ /\ \A s \in DOMAIN tasks : \A tree \in ProcTrees :
              (tasks[s].pc = "proc" /\ QueryFailed(tree) /\ ProcessCwdResolved(s, tree))
                 => /\ Len(tasks') = Len(tasks) - 1
                    /\ terminalCwdMap' =
                          IF tasks[s].op = "track" /\ ~isValidCwd(tasks[s].existingCwd)
                          THEN TrackByName(terminalCwdMap,
                                           TerminalById(tasks[s].term), workspaceFolders)
                          ELSE terminalCwdMap
        /\ calc'.fn = "getClaudeStatus"
              => /\ ~calc'.result.rejected
                 /\ (calc'.pid = 0 \/ calc'.ps.fails)
                       => calc'.result.status = [hasClaude |-> FALSE, isActive |-> FALSE]
      ]_vars

\* A terminal with a process id was classified while the process listing failed.
C24_Witness ==
    /\ calc.fn = "getClaudeStatus"
    /\ calc.pid # 0
    /\ calc.ps.fails
    /\ calc.result.status = [hasClaude |-> FALSE, isActive |-> FALSE]
    /\ ~calc.result.rejected
    /\ tasks = <<>>

\* -------------------------------------------------------- claims on the grid

\* Is the canvas a grid of rows x cols groups, every column of rows cells?
IsUniformGrid(canvas, rows, cols) ==
    IF canvas.orientation = 0
    THEN /\ Len(canvas.groups) = cols
         /\ \A i \in DOMAIN canvas.groups : Len(canvas.groups[i]) = rows
    ELSE /\ Len(canvas.groups) = rows
         /\ \A i \in DOMAIN canvas.groups : Len(canvas.groups[i]) = cols

\* C25: dimensions and splitPlan are consistent: for 1 <= rows, cols <= MaxGrid
\* every step of splitPlan(rows, cols) can be carried out on the blank canvas,
\* and once all are, the layout's dimensions are {rows, cols} and every column
\* has rows cells.
C25_PlanBuildsGrid ==
    calc.fn = "createGridSplitPlan" =>
       /\ calc.done < Len(calc.plan) =>
             (calc.plan[calc.done + 1].action = "focusGroup"
                 => GroupNumbered(calc.canvas, calc.plan[calc.done + 1].group) # 0)
             /\ (calc.plan[calc.done + 1].action = "splitRight"
                 => CanSplit(calc.canvas, calc.active, 0))
       /\ calc.done = Len(calc.plan) =>
             /\ getGridDimensions(LayoutOf(calc.canvas))
                   = [rows |-> calc.rows, cols |-> calc.cols]
             /\ IsUniformGrid(calc.canvas, calc.rows, calc.cols)

\* The plan of the largest grid has been carried out.
C25_Witness ==
    /\ calc.fn = "createGridSplitPlan"
    /\ calc.rows = MaxGrid /\ calc.cols = MaxGrid
    /\ calc.done = Len(calc.plan)
    /\ Cardinality(CanvasCells(calc.canvas)) = MaxGrid * MaxGrid

\* C26: splitPlan(rows, cols) is cols-1 split-rights, then, only if rows > 1,
\* for each column 1..cols a focusGroup of that column (left out when cols is
\* 1) followed by rows-1 split-downs; no split-right comes after a focus or a
\* split-down, and the plan of 1 x 1 is empty.
C26_PlanShape ==
    calc.fn = "createGridSplitPlan" =>
       LET plan == calc.plan
           rights == calc.cols - 1
           focus == IF calc.cols > 1 THEN 1 ELSE 0
           block == focus + calc.rows - 1
       IN  /\ Len(plan) = rights + (IF calc.rows > 1 THEN calc.cols * block ELSE 0)
           /\ \A k \in 1..rights : plan[k].action = "splitRight"
           /\ \A k \in DOMAIN plan : k > rights => plan[k].action # "splitRight"
           /\ calc.rows > 1 =>
                 \A c \in 1..calc.cols : \A o \in 1..block :
                    LET step == plan[rights + (c - 1) * block + o]
                    IN  IF focus = 1 /\ o = 1
                        THEN step.action = "focusGroup" /\ step.group = c
                        ELSE step.action = "splitDown"
           /\ (calc.rows = 1 /\ calc.cols = 1) => plan = <<>>

\* The plan of 2 x 3 is the eight steps of the worked example.
C26_Witness ==
    /\ calc.fn = "createGridSplitPlan"
    /\ calc.rows = 2 /\ calc.cols = 3
    /\ [k \in DOMAIN calc.plan |-> calc.plan[k].action]
          = <<"splitRight", "splitRight", "focusGroup", "splitDown", "focusGroup",
              "splitDown", "focusGroup", "splitDown">>
    /\ calc.plan[3].group = 1 /\ calc.plan[5].group = 2 /\ calc.plan[7].group = 3

\* C27: dimensions(layout): 1 x 1 for an undefined layout, one without groups
\* and a single leaf group; M rows x N columns for orientation 0 with N
\* children, M the nested children of the first (1 for a leaf); N rows x M
\* columns for orientation 1.
C27_Dimensions ==
    calc.fn = "getGridDimensions" =>
       LET layout == calc.layout
           n == Len(layout.groups)
           m == IF layout.groups[1].hasGroups THEN Len(layout.groups[1].groups) ELSE 1
       IN  IF ~layout.defined \/ ~layout.hasGroups \/ n = 0
           THEN calc.result = [rows |-> 1, cols |-> 1]
           ELSE IF n = 1 /\ ~layout.groups[1].hasGroups
           THEN calc.result = [rows |-> 1, cols |-> 1]
           ELSE /\ layout.orientation = 0 => calc.result = [rows |-> m, cols |-> n]
                /\ layout.orientation = 1 => calc.result = [rows |-> n, cols |-> m]

\* A stacked layout of two children, the first a side-by-side split of three,
\* was measured as 2 x 3.
C27_Witness ==
    /\ calc.fn = "getGridDimensions"
    /\ calc.layout.defined
    /\ calc.layout.orientation = 1
    /\ Len(calc.layout.groups) = 2
    /\ calc.layout.groups[1].hasGroups
    /\ Len(calc.layout.groups[1].groups) = 3
    /\ calc.result = [rows |-> 2, cols |-> 3]

\* C28: cellGroupNumber(row, col, rows, cols) = row*cols + col + 1, and over
\* all cells of the grid its values are exactly 1..rows*cols, none twice.
C28_CellNumbersAreABijection ==
    calc.fn = "getGridCellGroup" =>
       /\ \A cell \in DOMAIN calc.result :
             calc.result[cell] = cell[1] * calc.cols + cell[2] + 1
       /\ { calc.result[cell] : cell \in DOMAIN calc.result } = 1..(calc.rows * calc.cols)
       /\ \A a, b \in DOMAIN calc.result : calc.result[a] = calc.result[b] => a = b

\* The cells of a 2 x 3 grid were numbered, the last one 6.
C28_Witness ==
    /\ calc.fn = "getGridCellGroup"
    /\ calc.rows = 2 /\ calc.cols = 3
    /\ Cardinality(DOMAIN calc.result) = 6
    /\ calc.result[<<1, 2>>] = 6

\* ------------------------------------------------- claims on tool detection

\* A name without the blanks at its two ends, in lower case.
CoreOf(name) ==
    LET inked == { i \in 1..Len(name) : name[i] # " " }
        first == CHOOSE i \in inked : \A j \in inked : i <= j
        last == CHOOSE i \in inked : \A j \in inked : j <= i
    IN  IF inked = {} THEN <<>>
        ELSE [k \in 1..(last - first + 1) |-> LowerChar(name[first + k - 1])]

StrSlashClaude == <<"/", "c", "l", "a", "u", "d", "e">>

IsToolName(name) ==
    \/ CoreOf(name) = StrClaude
    \/ /\ Len(CoreOf(name)) >= Len(StrSlashClaude)
       /\ \A k \in 1..Len(StrSlashClaude) :
             CoreOf(name)[Len(CoreOf(name)) - Len(StrSlashClaude) + k] = StrSlashClaude[k]

MerelyContainingNames ==
    { StrHelper,
      StrClaude \o <<"-", "m", "c", "p">>,
      <<"s", "o", "m", "e", "-">> \o StrClaude \o <<"-", "t", "h", "i", "n", "g">> }

\* C29: a process name matches if and only if, trimmed and in lower case, it
\* is "claude" or ends with "/claude"; "claude-helper", "claude-mcp" and
\* "some-claude-thing", which only contain the word, never match.
C29_ExactOrSuffixMatch ==
    calc.fn = "isClaudeProcess" =>
       /\ calc.result = IsToolName(calc.name)
       /\ calc.name \in MerelyContainingNames => calc.result = FALSE

\* The matcher accepted the tool named by its path.
C29_Witness ==
    /\ calc.fn = "isClaudeProcess"
    /\ calc.name = StrBinClaude
    /\ calc.result = TRUE

\* The rows of a process listing that are children of a process.
ChildRows(rows, parent) == { i \in DOMAIN rows : rows[i].ppid = parent }

\* The tool that is found among the shell's direct children: the first child
\* of the shell, in listing order, with the tool's name.
ToolRows(rows, shell) == { i \in ChildRows(rows, shell) : IsToolName(rows[i].comm) }

FoundTool(rows, shell) ==
    CHOOSE i \in ToolRows(rows, shell) : \A j \in ToolRows(rows, shell) : i <= j

\* A name that contains none of the fragments of the deny list, letters
\* compared without regard to case.
ContainsNoFragment(name) ==
    \A f \in DOMAIN backgroundProcesses :
       ~\E at \in 1..Len(name) :
            /\ at + Len(backgroundProcesses[f]) - 1 <= Len(name)
            /\ \A k \in 1..Len(backgroundProcesses[f]) :
                  LowerChar(name[at + k - 1]) = backgroundProcesses[f][k]

ToolIsWorking(rows, shell) ==
    /\ ToolRows(rows, shell) # {}
    /\ \E c \in ChildRows(rows, rows[FoundTool(rows, shell)].pid) :
          ContainsNoFragment(rows[c].comm)

\* C30: the classification has three outcomes. isActive is true if and only if
\* the tool is found among the direct children of the shell and at least one
\* child of that tool has a name with none of the deny-list fragments in it: a
\* shell, a utility and an unknown name count, a deny-listed helper does not.
\* isActive is never true when the tool was not found.
C30_ThreeStates ==
    calc.fn = "getClaudeStatus" =>
       /\ calc.result.status.isActive =
             (/\ calc.pid # 0
              /\ ~calc.ps.fails
              /\ ToolIsWorking(calc.ps.rows, calc.pid))
       /\ calc.result.status.isActive => calc.result.status.hasClaude
       /\ ~calc.ps.fails /\ calc.pid # 0 =>
             calc.result.status.hasClaude = (ToolRows(calc.ps.rows, calc.pid) # {})

\* The tool had a helper of the deny list and a shell among its children and
\* was classified as working.
C30_Witness ==
    /\ calc.fn = "getClaudeStatus"
    /\ calc.pid = 1
    /\ calc.ps.rows = <<PsRow(2, 1, StrClaude), PsRow(4, 2, StrNode), PsRow(5, 2, StrBash)>>
    /\ calc.result.status = [hasClaude |-> TRUE, isActive |-> TRUE]

\* ------------------------------------------------- the restore plan

\* A saved terminal with its optional viewColumn (SavedTerminalInfo).
PlanTerminal(name, hasViewColumn, viewColumn) ==
    [name |-> name, hasViewColumn |-> hasViewColumn, viewColumn |-> viewColumn]

\* terminal.viewColumn || 1: undefined and 0 are falsy.
ViewColumnOrOne(terminal) ==
    IF ~terminal.hasViewColumn \/ terminal.viewColumn = 0 THEN 1
    ELSE terminal.viewColumn

\* groupTerminalsByViewColumn: the map from a column to the terminals pushed
\* for it, in the order of the loop.
RECURSIVE GroupFrom(_, _)
GroupFrom(terminals, groups) ==
    IF terminals = <<>> THEN groups
    ELSE LET group == ViewColumnOrOne(Head(terminals))
             made == IF group \in DOMAIN groups THEN groups
                     ELSE [g \in DOMAIN groups \cup {group} |->
                             IF g = group THEN <<>> ELSE groups[g]]
         IN  GroupFrom(Tail(terminals),
                       [made EXCEPT ![group] = Append(@, Head(terminals))])

groupTerminalsByViewColumn(terminals) == GroupFrom(terminals, << >>)

\* Array.prototype.sort((a, b) => a - b) on a set of numbers.
RECURSIVE SortAscending(_)
SortAscending(numbers) ==
    IF numbers = {} THEN <<>>
    ELSE LET least == CHOOSE n \in numbers : \A m \in numbers : n <= m
         IN  <<least>> \o SortAscending(numbers \ {least})

\* The columns in the order in which the Set first received them.
RECURSIVE InsertionOrder(_, _)
InsertionOrder(terminals, seen) ==
    IF terminals = <<>> THEN <<>>
    ELSE IF ViewColumnOrOne(Head(terminals)) \in seen
         THEN InsertionOrder(Tail(terminals), seen)
         ELSE <<ViewColumnOrOne(Head(terminals))>>
                 \o InsertionOrder(Tail(terminals),
                                   seen \cup {ViewColumnOrOne(Head(terminals))})

\* A list of columns that is left in insertion order.
getUnsortedViewColumns(terminals) == InsertionOrder(terminals, {})

\* getSortedViewColumns
getSortedViewColumns(terminals) ==
    SortAscending({ ViewColumnOrOne(terminals[i]) : i \in DOMAIN terminals })

\* createRestorePlan
createRestorePlan(terminals) ==
    LET groups == groupTerminalsByViewColumn(terminals)
        sortedColumns == getSortedViewColumns(terminals)
    IN  [index \in DOMAIN sortedColumns |->
           [groupIndex |-> index,
            originalViewColumn |-> sortedColumns[index],
            terminals |-> IF sortedColumns[index] \in DOMAIN groups
                          THEN groups[sortedColumns[index]] ELSE <<>>]]

\* createRestorePlan applied to a list of saved terminals.
PlanRestore(terminals) ==
    /\ calc' = [fn |-> "createRestorePlan", terminals |-> terminals,
                result |-> createRestorePlan(terminals)]
    /\ UNCHANGED <<terminalCwdMap, windowTerminals, workspaceFolders, platform,
                   cwdMapRecord, tasks, globalState, config, now, restore,
                   hostCalls, timers, nextId, createFails, saveInterval,
                   armedTimers, passes, closedTerminals, openTimers, durable,
                   pendingWrites, store>>

\* deduplicateTerminalsByCwd applied to a list of saved terminals, and applied
\* once more to what it returned.
Deduplicate(terminals) ==
    /\ calc' = [fn |-> "deduplicateTerminalsByCwd", terminals |-> terminals,
                result |-> deduplicateTerminalsByCwd(terminals),
                again |-> deduplicateTerminalsByCwd(deduplicateTerminalsByCwd(terminals))]
    /\ UNCHANGED <<terminalCwdMap, windowTerminals, workspaceFolders, platform,
                   cwdMapRecord, tasks, globalState, config, now, restore,
                   hostCalls, timers, nextId, createFails, saveInterval,
                   armedTimers, passes, closedTerminals, openTimers, durable,
                   pendingWrites, store>>

\* ------------------------------------------------- the lists specification

\* Names that tell the terminals of a list apart by their place in it.
PlaceNames == << <<"a">>, <<"b">>, <<"c">>, <<"d">>, <<"e">> >>

\* Stored columns: none, the first, the next, and two further apart.
PlanColumns == { <<FALSE, 0>>, <<TRUE, 1>>, <<TRUE, 2>>, <<TRUE, 5>>, <<TRUE, 8>> }

MaxPlanned == 3

PlanLists ==
    { [i \in DOMAIN columns |->
         PlanTerminal(PlaceNames[i], columns[i][1], columns[i][2])] :
        columns \in UNION { [1..n -> PlanColumns] : n \in 0..MaxPlanned } }

InitLists == InitGrid

NextLists ==
    \/ \E terminals \in PlanLists : PlanRestore(terminals)
    \/ \E terminals \in SavedLists : Deduplicate(terminals)

SpecLists == InitLists /\ [][NextLists]_vars

\* ------------------------------------------------- claims on lists

\* The grid position of a saved terminal, 1 when none is stored.
PositionOf(terminal) == IF terminal.hasViewColumn THEN terminal.viewColumn ELSE 1

\* The places (group, place in the group) at which a plan holds a terminal.
PlacesOf(plan, terminal) ==
    { <<g, j>> \in (DOMAIN plan) \X (1..(MaxPlanned + 1)) :
         j \in DOMAIN plan[g].terminals /\ plan[g].terminals[j] = terminal }

\* The place of a terminal in the list given to the plan.
PlaceIn(terminals, terminal) == CHOOSE i \in DOMAIN terminals : terminals[i] = terminal

\* C31: createRestorePlan partitions the saved terminals by grid position, a
\* missing viewColumn counting as 1; the groups come by ascending original
\* viewColumn and are numbered 1..k without gaps, even when the viewColumns
\* have gaps; every terminal is in exactly one group, and the terminals of a
\* group keep the order they had in the list.
C31_RestorePlanPartitions ==
    calc.fn = "createRestorePlan" =>
       /\ \A g \in DOMAIN calc.result :
             /\ calc.result[g].groupIndex = g
             /\ calc.result[g].terminals # <<>>
             /\ \A j \in DOMAIN calc.result[g].terminals :
                   PositionOf(calc.result[g].terminals[j])
                      = calc.result[g].originalViewColumn
             /\ \A j, k \in DOMAIN calc.result[g].terminals :
                   j < k => PlaceIn(calc.terminals, calc.result[g].terminals[j])
                              < PlaceIn(calc.terminals, calc.result[g].terminals[k])
       /\ \A g, h \in DOMAIN calc.result :
             g < h => calc.result[g].originalViewColumn
                        < calc.result[h].originalViewColumn
       /\ \A i \in DOMAIN calc.terminals :
             Cardinality(PlacesOf(calc.result, calc.terminals[i])) = 1

\* Terminals of columns 5, none and 5 were planned: two groups, numbered 1
\* and 2, the second with the two terminals of column 5 in their order.
C31_Witness ==
    /\ calc.fn = "createRestorePlan"
    /\ calc.terminals = << PlanTerminal(<<"a">>, TRUE, 5),
                           PlanTerminal(<<"b">>, FALSE, 0),
                           PlanTerminal(<<"c">>, TRUE, 5) >>
    /\ Len(calc.result) = 2
    /\ calc.result[2].groupIndex = 2
    /\ calc.result[2].originalViewColumn = 5
    /\ Len(calc.result[2].terminals) = 2

\* The places of a list that hold the first entry of their cwd.
FirstPlaces(terminals) ==
    { i \in DOMAIN terminals :
        \A j \in DOMAIN terminals : j < i => terminals[j].cwd # terminals[i].cwd }

\* The k-th smallest member of a set of places.
NthPlace(places, k) ==
    CHOOSE i \in places : Cardinality({ j \in places : j <= i }) = k

\* C32: deduplication by cwd returns the entries that are the first of their
\* cwd, in the order of the input, so no two entries of the result share a
\* cwd; deduplicating the result once more returns the result.
C32_FirstOfEachCwd ==
    calc.fn = "deduplicateTerminalsByCwd" =>
       /\ Len(calc.result) = Cardinality(FirstPlaces(calc.terminals))
       /\ \A k \in DOMAIN calc.result :
             calc.result[k] = calc.terminals[NthPlace(FirstPlaces(calc.terminals), k)]
       /\ \A j, k \in DOMAIN calc.result :
             j # k => calc.result[j].cwd # calc.result[k].cwd
       /\ calc.again = calc.result

\* A list whose third entry repeats the cwd of the first under another name
\* was deduplicated: the first two entries remain.
C32_Witness ==
    /\ calc.fn = "deduplicateTerminalsByCwd"
    /\ calc.terminals = << [cwd |-> DirA, name |-> NameA],
                           [cwd |-> DirB, name |-> NameA],
                           [cwd |-> DirA, name |-> NameB] >>
    /\ calc.result = << [cwd |-> DirA, name |-> NameA],
                        [cwd |-> DirB, name |-> NameA] >>
    /\ calc.again = calc.result

\* ------------------------------------------------- the naming specification

\* Saved directories: with and without a slash at the end, without a slash at
\* all, with an empty component, only slashes, and the empty string.
NamedCwds ==
    { DirA, DirA \o <<"/">>, <<"a">>, <<"/", "p", "/", "/">>, <<"/">>, <<"/", "/">>,
      <<>> }

\* Saved names: a name, the empty name, no name.
NamedEntries ==
    { [cwd |-> c, name |-> n] : c \in NamedCwds, n \in {NameB, <<>>, Undefined} }

NamedLists == { <<e>> : e \in NamedEntries }
                 \cup { <<e, f>> : e \in { x \in NamedEntries : x.name = <<>> },
                                   f \in { x \in NamedEntries : x.name # Undefined } }

\* A fresh snapshot of an ungraceful exit, restore enabled, a launch command
\* configured, auto-naming on or off, and at most one terminal the host reopened.
InitRestoreNames ==
    /\ terminalCwdMap = EmptyMap
    /\ windowTerminals \in { HostRestored(n) : n \in 0..1 }
    /\ workspaceFolders = <<>>
    /\ platform = "darwin"
    /\ cwdMapRecord = EmptyMap
    /\ tasks = <<>>
    /\ globalState \in { << [terminals |-> ts, savedAt |-> SavedAt,
                             gracefulExit |-> FALSE] >> : ts \in NamedLists }
    /\ config \in { [enableDirectoryRestore |-> TRUE,
                     autoLaunchCommand |-> <<" ", "c">>,
                     autoNameByFolder |-> a] : a \in BOOLEAN }
    /\ now = SavedAt + maxAgeMs
    /\ restore = Waiting("start", <<>>, <<>>)
    /\ hostCalls = <<>>
    /\ timers = <<>>
    /\ nextId = Len(windowTerminals) + 1
    /\ createFails = {}
    /\ SchedulerIdle

SpecRestoreNames == InitRestoreNames /\ [][NextRestore]_vars

\* ------------------------------------------------- claims on replay names

\* The components of a path: the longest stretches without a slash.
IsComponent(cwd, from, to) ==
    /\ 1 <= from /\ from <= to /\ to <= Len(cwd)
    /\ \A i \in from..to : cwd[i] # "/"
    /\ from = 1 \/ cwd[from - 1] = "/"
    /\ to = Len(cwd) \/ cwd[to + 1] = "/"

HasComponent(cwd) == \E from, to \in 1..Len(cwd) : IsComponent(cwd, from, to)

\* The last component: only slashes follow it.
LastComponent(cwd) ==
    LET ends == CHOOSE ft \in (1..Len(cwd)) \X (1..Len(cwd)) :
                   /\ IsComponent(cwd, ft[1], ft[2])
                   /\ \A i \in (ft[2] + 1)..Len(cwd) : cwd[i] = "/"
    IN  SubSeq(cwd, ends[1], ends[2])

\* The saved entry a createTerminal call replays: the first of its cwd.
SavedFor(state, cwd) ==
    state.terminals[CHOOSE i \in DOMAIN state.terminals :
                       /\ state.terminals[i].cwd = cwd
                       /\ \A j \in 1..(i - 1) : state.terminals[j].cwd # cwd]

DisplayName(saved, autoNameByFolder) ==
    IF saved.name # Undefined /\ saved.name # <<>> THEN saved.name
    ELSE IF autoNameByFolder
         THEN (IF HasComponent(saved.cwd) THEN LastComponent(saved.cwd)
               ELSE StrTerminal)
         ELSE Undefined

\* C33: a terminal created by replay gets the saved name when that is not
\* empty; otherwise, with auto-naming on, the last non-empty component of its
\* saved cwd, slashes at the end ignored, or "Terminal" when the cwd has no
\* component; otherwise no name is given.
C33_ReplayDisplayName ==
    [][ \A j \in DOMAIN hostCalls' :
           (j > Len(hostCalls) /\ hostCalls'[j].call = "createTerminal")
              => /\ globalState # Absent
                 /\ hostCalls'[j].name
                      = DisplayName(SavedFor(globalState[1], hostCalls'[j].cwd),
                                    config.autoNameByFolder) ]_vars

\* With auto-naming on, a terminal saved without a name in "/p/a/" was
\* created as "a" and one saved in "/" as "Terminal".
C33_Witness ==
    /\ config.autoNameByFolder
    /\ \E j \in DOMAIN hostCalls :
          /\ hostCalls[j].call = "createTerminal"
          /\ hostCalls[j].cwd = DirA \o <<"/">>
          /\ hostCalls[j].name = <<"a">>
    /\ \E j \in DOMAIN hostCalls :
          /\ hostCalls[j].call = "createTerminal"
          /\ hostCalls[j].cwd = <<"/">>
          /\ hostCalls[j].name = StrTerminal

\* ------------------------------------------------- claims on closing

\* C34: closing one terminal never removes or changes the tracked cwd of
\* another terminal that is still open: after a close notification every other
\* open terminal that had an entry in the map has the same entry.
C34_CloseKeepsOtherEntries ==
    [][ \A i \in DOMAIN windowTerminals :
           CloseTerminal(i) =>
              \A j \in DOMAIN windowTerminals :
                 (j # i /\ MapHas(terminalCwdMap, getTerminalKey(windowTerminals[j])))
                    => /\ MapHas(terminalCwdMap', getTerminalKey(windowTerminals[j]))
                       /\ MapGet(terminalCwdMap', getTerminalKey(windowTerminals[j]))
                            = MapGet(terminalCwdMap, getTerminalKey(windowTerminals[j])) ]_vars

\* ------------------------------------------------- the overlap specification

\* The callbacks that may be in progress at once.
MaxOverlap == 2

\* The interval fires every SAVE_INTERVAL_MS whether or not the callback of
\* the tick before has returned (setInterval, lines 656-664).
NextOverlap ==
    \/ \E h \in armedTimers : TickWithin(h, MaxOverlap)
    \/ \E j \in DOMAIN passes : PassPidResolved(j)
    \/ \E j \in DOMAIN passes, tree \in ProcTrees : PassProcessCwdResolved(j, tree)
    \/ Persisted

SpecOverlap == InitSave /\ [][NextOverlap]_vars

\* ------------------------------------------------- claims on overlapping passes

\* The snapshot updates issued and not yet persisted are in the order in which
\* their passes started.
WritesInStartOrder ==
    \A i, j \in DOMAIN pendingWrites :
       (i < j /\ pendingWrites[i].key = "state" /\ pendingWrites[j].key = "state")
          => pendingWrites[i].by <= pendingWrites[j].by

\* C35: at most one periodic pass is in progress at any time: no tick starts
\* its pass while the pass or the snapshot write of an earlier tick is pending,
\* so the snapshots reach the store in the order in which their passes started.
C35_OnePassAtATime ==
    /\ Len(passes) <= 1
    /\ WritesInStartOrder

\* ------------------------------------------------- activation after activation

\* An activate that starts the scheduler without awaiting restoreTerminals.
RestoreNotAwaited == restore.pc \notin {"idle", "running", "threw"}

\* `await restoreTerminals(context)` (line 820): restoreTerminals has returned.
RestoreAwaited == restore.pc = "returned"

\* `await restoreTerminals(context)` resumes and line 823 runs:
\* startPeriodicSave(context).
ActivateStartsScheduler ==
    /\ RestoreAwaited
    /\ restore' = [restore EXCEPT !.pc = "running"]
    /\ armedTimers' = ClearInterval(armedTimers) \cup {1}
    /\ saveInterval' = 1
    /\ UNCHANGED <<terminalCwdMap, windowTerminals, workspaceFolders, platform,
                   cwdMapRecord, tasks, globalState, config, now, hostCalls,
                   timers, nextId, createFails, passes, closedTerminals,
                   openTimers, durable, pendingWrites, store, calc>>

\* The host calls deactivate on an extension whose activate has finished.
DeactivateRunning ==
    /\ restore.pc = "running"
    /\ saveInterval # 0
    /\ Deactivate

MaxRestarts == 1

Restarts == Len(CallsOf(hostCalls, "restart"))

\* The window is reloaded after deactivate, or after an activate that was
\* rejected: a new process with fresh module state, on what the host has
\* stored and with the terminals the host keeps open.
HostRestarts ==
    /\ \/ restore.pc = "running" /\ saveInterval = 0
       \/ restore.pc = "threw"
    /\ Restarts < MaxRestarts
    /\ restore' = RestoreIdle
    /\ terminalCwdMap' = EmptyMap
    /\ passes' = <<>>
    /\ pendingWrites' = <<>>
    /\ windowTerminals' = SelectSeq(windowTerminals, LAMBDA t : ~t.disposed)
    /\ hostCalls' = Append(hostCalls, HostCall("restart", 0, Undefined, Undefined,
                                               <<>>, 0))
    /\ UNCHANGED <<workspaceFolders, platform, cwdMapRecord, tasks, globalState,
                   config, now, timers, nextId, createFails, saveInterval,
                   armedTimers, closedTerminals, openTimers, durable, store, calc>>

\* Snapshots an earlier run left: none, a graceful one, and fresh ones of an
\* exit that was not graceful.
LifeSnapshots ==
    { [terminals |-> ts, savedAt |-> SavedAt, gracefulExit |-> g] :
        ts \in { <<[cwd |-> DirA, name |-> NameA]>>,
                 <<[cwd |-> DirA, name |-> NameA], [cwd |-> DirB, name |-> <<>>]>> },
        g \in BOOLEAN }

\* A new process before activate; the host may reject the second creation of
\* a replay.
InitLife ==
    /\ terminalCwdMap = EmptyMap
    /\ windowTerminals \in { HostRestored(n) : n \in 0..1 }
    /\ workspaceFolders = <<>>
    /\ platform = "darwin"
    /\ cwdMapRecord = EmptyMap
    /\ tasks = <<>>
    /\ globalState \in {Absent} \cup { <<st>> : st \in LifeSnapshots }
    /\ config \in { [enableDirectoryRestore |-> e, autoLaunchCommand |-> <<" ">>,
                     autoNameByFolder |-> TRUE] : e \in BOOLEAN }
    /\ now = SavedAt
    /\ restore = RestoreIdle
    /\ hostCalls = <<>>
    /\ timers = <<>>
    /\ nextId = Len(windowTerminals) + 1
    /\ createFails \in { {}, {2} }
    /\ SchedulerIdle

NextLife ==
    \/ Activate
    \/ RestoreBegin
    \/ RestoreSettled
    \/ RestoreCleared
    \/ ActivateStartsScheduler
    \/ \E h \in armedTimers : Tick(h)
    \/ \E j \in DOMAIN passes : PassPidResolved(j)
    \/ \E j \in DOMAIN passes, tree \in ProcTrees : PassProcessCwdResolved(j, tree)
    \/ Persisted
    \/ DeactivateRunning
    \/ HostRestarts

SpecLife == InitLife /\ [][NextLife]_vars

\* ------------------------------------------------- claims on activations

Reconciling ==
    restore.pc \in {"start", "settling", "clearing", "clearingRestored", "clearingClean"}

\* C37: within one activation no pass of the scheduler begins before the
\* reconciler has terminated: the CwdMap is loaded first, then the reconciler
\* runs to its end, then the timer is armed, so no periodic snapshot write
\* falls between the reconciler's read of the snapshot and its final clear.
C37_SchedulerAfterReconciler ==
    /\ [](Reconciling => armedTimers = {} /\ passes = <<>> /\ pendingWrites = <<>>)
    /\ [][ /\ (restore.pc = "idle" /\ restore'.pc # "idle")
              => terminalCwdMap' = loadCwdMap(terminalCwdMap, cwdMapRecord)
           /\ (armedTimers' # armedTimers /\ armedTimers' # {})
              => /\ restore.pc = "returned"
                 /\ passes = <<>>
           /\ Reconciling
              => /\ globalState' \in {globalState, Absent}
                 /\ pendingWrites' = pendingWrites ]_vars

\* A replay created a terminal, the timer was armed after it and a pass of
\* the scheduler is in progress.
C37_Witness ==
    /\ restore.pc = "running"
    /\ CallsOf(hostCalls, "createTerminal") # <<>>
    /\ armedTimers # {}
    /\ passes # <<>>

\* ------------------------------------------------- claims on the two replay paths

\* What a replay is to create for a snapshot under a configuration, whatever
\* is open in the window: one pane for each first entry of a cwd, in order,
\* in the saved cwd and with its display name.
PanesToCreate(state, configuration) ==
    [n \in DOMAIN FirstOccurrences(state.terminals) |->
        [cwd |-> FirstOccurrences(state.terminals)[n].cwd,
         name |-> DisplayName(FirstOccurrences(state.terminals)[n],
                              configuration.autoNameByFolder)]]

\* The identity the host's terminal of a pane gets.
IdentityOf(pane) ==
    IF pane.name = Undefined
    THEN HostDefaultName \o <<"-">> \o StrDefault
    ELSE pane.name \o <<"-">> \o pane.name

\* The map after the first k panes were registered in it, one after the other.
RECURSIVE RegisteredIn(_, _, _)
RegisteredIn(map, panes, k) ==
    IF k = 0 THEN map
    ELSE [key \in DOMAIN RegisteredIn(map, panes, k - 1) \cup {IdentityOf(panes[k])} |->
            IF key = IdentityOf(panes[k]) THEN panes[k].cwd
            ELSE RegisteredIn(map, panes, k - 1)[key]]

\* The calls of a log that the two paths are to have in common, without the
\* terminals' numbers and the wording of the notification.
CommonCalls(calls) ==
    LET kept == SelectSeq(calls, LAMBDA c :
                    c.call \in {"createTerminal", "createTerminalThrows",
                                "showInformationMessage"})
    IN  [n \in DOMAIN kept |->
            [call |-> kept[n].call, cwd |-> kept[n].cwd, name |-> kept[n].name,
             count |-> kept[n].count]]

\* The calls a replay of these panes makes when the host rejects none, or
\* rejects the creation numbered fails.
CallsToMake(panes, fails) ==
    LET made == IF fails \in DOMAIN panes THEN fails - 1 ELSE Len(panes)
    IN  [n \in 1..made |->
            [call |-> "createTerminal", cwd |-> panes[n].cwd, name |-> panes[n].name,
             count |-> 0]]
        \o (IF fails \in DOMAIN panes
            THEN << [call |-> "createTerminalThrows", cwd |-> panes[fails].cwd,
                     name |-> Undefined, count |-> 0] >>
            ELSE <<>>)

FirstFailure == IF createFails = {} THEN 0 ELSE CHOOSE n \in createFails : TRUE

ReplayedBeforeRestart ==
    \E r \in DOMAIN hostCalls :
       /\ hostCalls[r].call = "restart"
       /\ \E c \in 1..(r - 1) : hostCalls[c].call = "createTerminal"

\* No pass has written a snapshot since: the record is absent or is still the
\* one the earlier run had left.
NoSnapshotWrittenSince ==
    globalState = Absent \/ globalState[1].savedAt = SavedAt

\* C39: a snapshot is replayed at most once: after a replay that created
\* panes, a later activation with no snapshot write in between creates no pane
\* and disposes no pane.
C39_ReplayedAtMostOnce ==
    [][ (ReplayedBeforeRestart /\ NoSnapshotWrittenSince)
           => /\ CallsOf(hostCalls', "createTerminal") = CallsOf(hostCalls, "createTerminal")
              /\ CallsOf(hostCalls', "dispose") = CallsOf(hostCalls, "dispose") ]_vars

\* ------------------------------------------------------ the start-up pass

\* What the OS reports for the process of a terminal, by its process id.
ProcessTreeOf(pid) ==
    IF pid = 1
    THEN [own |-> Home, kids |-> <<ProcNode(DirA, <<>>)>>, psFails |-> FALSE]
    ELSE IF pid = 2
    THEN [own |-> DirB, kids |-> <<>>, psFails |-> FALSE]
    ELSE [own |-> Home, kids |-> <<>>, psFails |-> FALSE]

\* hasDuplicateCwds (utils.ts): new Set(cwds).size < cwds.length
hasDuplicateCwds(terminals) ==
    Cardinality({ terminals[i].cwd : i \in DOMAIN terminals }) < Len(terminals)

\* Lines 778-790: toRemove, the terminals whose cwd an earlier one had.
RECURSIVE RemoveFrom(_, _)
RemoveFrom(infos, seenCwds) ==
    IF infos = <<>> THEN <<>>
    ELSE IF Head(infos).cwd \in seenCwds
         THEN <<Head(infos).terminal>> \o RemoveFrom(Tail(infos), seenCwds)
         ELSE RemoveFrom(Tail(infos), seenCwds \cup {Head(infos).cwd})

\* Lines 770-790: nothing is removed unless hasDuplicateCwds.
ToRemove(infos) == IF hasDuplicateCwds(infos) THEN RemoveFrom(infos, {}) ELSE <<>>

\* activate from line 859 on: its position (pc), the terminals it enumerates,
\* the index of the one in hand, the entry trackTerminalCwd read at line 670,
\* and terminalInfos and toRemove of deduplicateExistingTerminals. Every
\* await is a step.
StartupPass(pc, terminals) ==
    [fn |-> "activate", pc |-> pc, terminals |-> terminals, at |-> 1,
     existingCwd |-> Undefined, terminalInfos |-> <<>>, toRemove |-> <<>>]

StartupInHand == calc.terminals[calc.at]

\* `for (const terminal of vscode.window.terminals)` (line 860).
StartupBegins ==
    /\ calc = NoCall
    /\ calc' = StartupPass(IF windowTerminals = <<>> THEN "dedup" ELSE "track",
                           windowTerminals)
    /\ UNCHANGED <<terminalCwdMap, windowTerminals, workspaceFolders, platform,
                   cwdMapRecord, tasks, globalState, config, now, restore,
                   hostCalls, timers, nextId, createFails, saveInterval,
                   armedTimers, passes, closedTerminals, openTimers, durable,
                   pendingWrites, store>>

\* `await trackTerminalCwd(terminal)` has resumed: the next terminal, or
\* line 865 after the last.
StartupTracked ==
    IF calc.at < Len(calc.terminals)
    THEN [calc EXCEPT !.pc = "track", !.at = @ + 1]
    ELSE [calc EXCEPT !.pc = "dedup", !.at = 1]

\* trackTerminalCwd(terminal) of line 862 up to its return or its first await.
StartupTrack ==
    /\ calc.fn = "activate"
    /\ calc.pc = "track"
    /\ LET t == StartupInHand
       IN  IF TrackReturnsSync(t)
           THEN /\ terminalCwdMap' = TrackSync(terminalCwdMap, t)
                /\ calc' = StartupTracked
           ELSE /\ calc' = [calc EXCEPT
                              !.pc = "trackPid",
                              !.existingCwd = MapGet(terminalCwdMap, getTerminalKey(t))]
                /\ UNCHANGED terminalCwdMap
    /\ UNCHANGED <<windowTerminals, workspaceFolders, platform, cwdMapRecord,
                   tasks, globalState, config, now, restore, hostCalls, timers,
                   nextId, createFails, saveInterval, armedTimers, passes,
                   closedTerminals, openTimers, durable, pendingWrites, store>>

\* `await terminal.processId` of line 711 resumes.
StartupTrackPid ==
    /\ calc.fn = "activate"
    /\ calc.pc = "trackPid"
    /\ LET t == StartupInHand
       IN  IF t.pid # 0
           THEN /\ calc' = [calc EXCEPT !.pc = "trackProc"]
                /\ UNCHANGED terminalCwdMap
           ELSE /\ terminalCwdMap' = TrackByName(terminalCwdMap, t, workspaceFolders)
                /\ calc' = StartupTracked
    /\ UNCHANGED <<windowTerminals, workspaceFolders, platform, cwdMapRecord,
                   tasks, globalState, config, now, restore, hostCalls, timers,
                   nextId, createFails, saveInterval, armedTimers, passes,
                   closedTerminals, openTimers, durable, pendingWrites, store>>

\* `await getProcessCwd(pid)` of line 713 resumes.
StartupTrackProc ==
    /\ calc.fn = "activate"
    /\ calc.pc = "trackProc"
    /\ LET t == StartupInHand
       IN  terminalCwdMap' =
              TrackAfterProcess(terminalCwdMap, t, calc.existingCwd,
                                getProcessCwd(platform, ProcessTreeOf(t.pid)),
                                workspaceFolders)
    /\ calc' = StartupTracked
    /\ UNCHANGED <<windowTerminals, workspaceFolders, platform, cwdMapRecord,
                   tasks, globalState, config, now, restore, hostCalls, timers,
                   nextId, createFails, saveInterval, armedTimers, passes,
                   closedTerminals, openTimers, durable, pendingWrites, store>>

\* deduplicateExistingTerminals is called (line 865) and runs lines 755-761.
DedupBegins ==
    /\ calc.fn = "activate"
    /\ calc.pc = "dedup"
    /\ calc' = [calc EXCEPT
                  !.pc = IF Len(windowTerminals) < 2 THEN "done" ELSE "getCwd",
                  !.terminals = windowTerminals,
                  !.at = 1]
    /\ UNCHANGED <<terminalCwdMap, windowTerminals, workspaceFolders, platform,
                   cwdMapRecord, tasks, globalState, config, now, restore,
                   hostCalls, timers, nextId, createFails, saveInterval,
                   armedTimers, passes, closedTerminals, openTimers, durable,
                   pendingWrites, store>>

\* terminalInfos.push({ terminal, cwd, name }) when cwd is truthy (lines 764-766).
InfosWith(infos, t, cwd) ==
    IF Truthy(cwd)
    THEN Append(infos, [terminal |-> t.id, cwd |-> cwd, name |-> t.name])
    ELSE infos

\* `await getTerminalCwd(terminal)` of line 763 has resumed with cwd: the next
\* terminal, or after the last one lines 769-801, which dispose and notify.
DedupGoesOn(cwd) ==
    LET infos == InfosWith(calc.terminalInfos, StartupInHand, cwd)
    IN  IF calc.at < Len(calc.terminals)
        THEN /\ calc' = [calc EXCEPT !.pc = "getCwd", !.at = @ + 1,
                                     !.terminalInfos = infos]
             /\ UNCHANGED <<windowTerminals, hostCalls>>
        ELSE LET toRemove == ToRemove(infos)
                 calls == [i \in DOMAIN toRemove |->
                             HostCall("dispose", toRemove[i], Undefined, Undefined,
                                      <<>>, 0)]
             IN  /\ calc' = [calc EXCEPT !.pc = "done", !.terminalInfos = infos,
                                          !.toRemove = toRemove]
                 /\ windowTerminals' = Disposed(windowTerminals, calls)
                 /\ hostCalls' = IF toRemove = <<>> THEN hostCalls
                                 ELSE Notified(hostCalls \o calls,
                                               "duplicate terminal(s)", Len(toRemove))

\* getTerminalCwd(terminal) of line 763 up to its return or its first await.
DedupGetCwd ==
    /\ calc.fn = "activate"
    /\ calc.pc = "getCwd"
    /\ LET cwd == GetCwdSync(terminalCwdMap, StartupInHand)
       IN  IF Truthy(cwd)
           THEN DedupGoesOn(cwd)
           ELSE /\ calc' = [calc EXCEPT !.pc = "getPid"]
                /\ UNCHANGED <<windowTerminals, hostCalls>>
    /\ UNCHANGED <<terminalCwdMap, workspaceFolders, platform, cwdMapRecord,
                   tasks, globalState, config, now, restore, timers, nextId,
                   createFails, saveInterval, armedTimers, passes,
                   closedTerminals, openTimers, durable, pendingWrites, store>>

\* `await terminal.processId` of line 422 resumes.
DedupPid ==
    /\ calc.fn = "activate"
    /\ calc.pc = "getPid"
    /\ IF StartupInHand.pid # 0
       THEN /\ calc' = [calc EXCEPT !.pc = "getProc"]
            /\ UNCHANGED <<windowTerminals, hostCalls>>
       ELSE DedupGoesOn(Undefined)
    /\ UNCHANGED <<terminalCwdMap, workspaceFolders, platform, cwdMapRecord,
                   tasks, globalState, config, now, restore, timers, nextId,
                   createFails, saveInterval, armedTimers, passes,
                   closedTerminals, openTimers, durable, pendingWrites, store>>

\* `await getProcessCwd(pid)` of line 424 resumes.
DedupProc ==
    /\ calc.fn = "activate"
    /\ calc.pc = "getProc"
    /\ LET t == StartupInHand
           processCwd == getProcessCwd(platform, ProcessTreeOf(t.pid))
       IN  /\ terminalCwdMap' = GetCwdAfterProcess(terminalCwdMap, t, processCwd)
           /\ DedupGoesOn(processCwd)
    /\ UNCHANGED <<workspaceFolders, platform, cwdMapRecord, tasks, globalState,
                   config, now, restore, timers, nextId, createFails,
                   saveInterval, armedTimers, passes, closedTerminals,
                   openTimers, durable, pendingWrites, store>>

\* The host drops a terminal the pass has disposed.
HostClosesDuplicate(i) ==
    /\ HostClosesTerminal(i)
    /\ UNCHANGED calc

\* ------------------------------------------- the start-up specification

MaxStartup == 3

\* Terminals the host reopened or the user opened (named by the host or after
\* a program, with or without a cwd from shell integration, without a process
\* id or with one of a shell in a directory or at home), and a terminal this
\* extension created under a name with a cwd.
StartupKinds ==
    { [Terminal(0, n, Undefined, Undefined, p) EXCEPT !.shell = s] :
         n \in {HostDefaultName, NameA}, p \in 0..3, s \in {Undefined, DirA} }
    \cup { Terminal(0, NameA, NameA, DirB, 2) }

\* activate has passed line 857 in a window with up to MaxStartup terminals.
InitStartup ==
    /\ terminalCwdMap = EmptyMap
    /\ windowTerminals \in
          { WithIds(ks) : ks \in UNION { [1..n -> StartupKinds] : n \in 0..MaxStartup } }
    /\ workspaceFolders = <<>>
    /\ platform = "darwin"
    /\ cwdMapRecord = EmptyMap
    /\ tasks = <<>>
    /\ globalState = Absent
    /\ config = NoConfig
    /\ now = 0
    /\ restore = Returned("false")
    /\ hostCalls = <<>>
    /\ timers = <<>>
    /\ nextId = Len(windowTerminals) + 1
    /\ createFails = {}
    /\ SchedulerIdle

NextStartup ==
    \/ StartupBegins
    \/ StartupTrack
    \/ StartupTrackPid
    \/ StartupTrackProc
    \/ DedupBegins
    \/ DedupGetCwd
    \/ DedupPid
    \/ DedupProc
    \/ \E i \in DOMAIN windowTerminals : HostClosesDuplicate(i)

SpecStartup == InitStartup /\ [][NextStartup]_vars

\* ------------------------------------------- claims on the start-up pass

\* deduplicateExistingTerminals has returned to activate.
PassFinished == calc.fn = "activate" /\ calc.pc = "done"

\* The cwd a session's own signals resolve to: what its shell integration
\* reports, else what its process shows.
OwnCwd(t) ==
    IF Truthy(t.shell) THEN t.shell
    ELSE IF t.pid # 0 THEN getProcessCwd(platform, ProcessTreeOf(t.pid))
    ELSE Undefined

DisposedByPass(t) == \E r \in DOMAIN calc.toRemove : calc.toRemove[r] = t.id

\* C40: when the activation-time pass over the existing terminals has
\* finished, no two sessions left open whose cwd could be resolved share a
\* cwd; of the sessions of one cwd the earliest enumerated is kept; a session
\* whose cwd could not be resolved is not disposed; and with fewer than two
\* open sessions nothing is disposed.
C40_StartupDuplicatesRemoved ==
    PassFinished =>
        LET ts == calc.terminals
            Resolved(i) == Truthy(OwnCwd(ts[i]))
            Kept(i) == ~DisposedByPass(ts[i])
        IN  /\ \A i, j \in DOMAIN ts :
                  (i < j /\ Resolved(i) /\ Resolved(j) /\ Kept(i) /\ Kept(j))
                     => OwnCwd(ts[i]) # OwnCwd(ts[j])
            /\ \A i \in DOMAIN ts :
                  (Resolved(i) /\ \A j \in 1..(i - 1) : OwnCwd(ts[j]) # OwnCwd(ts[i]))
                     => Kept(i)
            /\ \A i \in DOMAIN ts : ~Resolved(i) => Kept(i)
            /\ Len(ts) < 2 => calc.toRemove = <<>>

====
